---- MODULE Spec2Model ----
(***************************************************************************)
(* Verification development for the zkTLS Social Proof Pass repository.    *)
(*                                                                         *)
(*   Spec        the SocialProofPass registry contract                     *)
(*               (src/unnamed/part_000, lines 508-846)                     *)
(*   SpecAdmin   the registry with owner-only functions and transfers      *)
(*               (src/unnamed/part_000)                                    *)
(*   SpecRelay   the backend: session store and proof relay                *)
(*               (src/backend/server.js)                                   *)
(*   SpecConfig  the backend's /generate-config route under every .env     *)
(*               (src/backend/server.js)                                   *)
(*   SpecMint    the backend's off-chain mint route driving the registry   *)
(*               (src/backend/server.js, src/unnamed/part_000)             *)
(*   SpecWizard  the frontend verification wizard polling the backend      *)
(*               (src/frontend/src/App.jsx)                                *)
(*   SpecPage    the wizard page with two cards, wallet, mode and mintNFT  *)
(*               (src/frontend/src/App.jsx)                                *)
(*   SpecShared  the wizard of one user next to another user's requests    *)
(*               (src/frontend/src/App.jsx, src/backend/server.js)         *)
(*   SpecCallbacks  the backend with proof callbacks suspended at the      *)
(*               oracle (src/backend/server.js)                            *)
(*   SpecPrepare the backend's /prepare-onchain-mint route                 *)
(*               (src/backend/server.js)                                   *)
(***************************************************************************)
EXTENDS Integers, Sequences, FiniteSets, TLC

(***************************************************************************)
(* Bounds of the model.                                                    *)
(***************************************************************************)
MaxTokens == 2          \* token ids 0 .. MaxTokens-1 can be minted
MaxBlockTime == 2       \* block.timestamp ranges over 1 .. MaxBlockTime
MaxProviders == 3       \* longest provider list an append may produce
MaxTime == 2            \* Date.now() ranges over 1 .. MaxTime
MaxSessions == 2        \* entries the session map may hold
MaxStoredProofs == 2    \* entries the proof map may hold
PollsPerTimeout == 2    \* poll periods before the timeout (300000 / 3000)
PollsAfterTimeout == 1  \* poll periods followed after the timeout
MaxInFlight == 2       \* callbacks awaiting the oracle at the same time
MaxRawProofs == 2       \* raw proofs in one /prepare-onchain-mint request

(***************************************************************************)
(* Program constants.                                                      *)
(***************************************************************************)
Uint8Mod == 256         \* uint8(x) keeps x modulo 2^8

(***************************************************************************)
(* Accounts.  ContractOwner deploys the registry (Ownable), Alice is an    *)
(* externally owned account, Mallory is a contract account, so _safeMint   *)
(* calls its onERC721Received hook.                                        *)
(***************************************************************************)
ZeroAddress == "0x0"
ContractOwner == "owner"
Alice == "alice"
Mallory == "mallory"
Accounts == {ContractOwner, Alice, Mallory}
ContractAccounts == {Mallory}
Addresses == Accounts \cup {ZeroAddress}
\* Token ids below MaxTokens can be minted; the two ids above them are
\* storage slots a call may read before the mint bound stops it.
TokenIds == 0 .. (MaxTokens + 1)
NoToken == -1

\* Addresses.ETHEREUM_SEPOLIA, and some other address with no oracle code.
ReclaimSepolia == "0xAe94"
ReclaimOther == "0x1234"

\* A provider list longer than a uint8 can count.
LongList == [i \in 1 .. Uint8Mod |-> "github"]

\* Provider lists handed to the mint entry points.
MintLists ==
    { <<>>, <<"github">>, <<"github", "gmail">>, <<"discord">>, LongList }

\* Provider lists handed to the append entry point.
AppendLists == { <<>>, <<"gmail">>, <<"discord">> }

\* An oracle proof: the claim owner it was issued to and whether the
\* oracle's signature check passes.
GoodProof == [owner |-> Alice, valid |-> TRUE]
BadProof == [owner |-> Alice, valid |-> FALSE]
ProofLists ==
    { <<>>, <<GoodProof>>, <<BadProof>>, <<GoodProof, GoodProof>>,
      <<GoodProof, BadProof>>, <<BadProof, GoodProof>> }

VARIABLES
    verificationSessions, \* Map sessionId -> session, in insertion order
    verificationProofs,   \* Map proofKey -> stored proof, in insertion order
    clock,                \* Date.now() of the backend process
    credentials,          \* process.env: state of each provider's credentials
    chainEnv,             \* process.env: RPC_URL, DEPLOYER_PRIVATE_KEY, ...
    resp,                 \* the last HTTP request and its response
    callbacks,            \* /receive-proofs requests awaiting verifyProof
    verificationStates,   \* useState: provider id -> wizard state
    verifications,        \* per provider: the timers of startVerification
    pageWallet,           \* walletAddress, useState(''): the account
    verificationMode,     \* useState('offchain')
    pageProofs,           \* proofs, useState({}): provider id -> proof
    pageReclaimProofs,    \* reclaimProofs, useState({}): id -> raw proof
    minting,              \* the last run of mintNFT and what it sent
    tokenIdCounter,     \* Counters.Counter _tokenIdCounter
    owners,             \* ERC721 _owners: token id -> address
    socialProofs,       \* mapping(uint256 => SocialProof)
    holderTokens,       \* mapping(address => uint256[])
    hasMinted,          \* mapping(address => bool)
    supportedProviders, \* mapping(string => bool), as the set of true keys
    reclaimAddress,     \* address of the oracle contract
    blockTime,          \* block.timestamp
    last                \* the last transaction: entry point, inputs, outcome

registryVars ==
    << tokenIdCounter, owners, socialProofs, holderTokens, hasMinted,
       supportedProviders, reclaimAddress, blockTime, last >>

relayVars ==
    << verificationSessions, verificationProofs, clock, credentials,
       chainEnv, resp, callbacks >>

pageVars ==
    << pageWallet, verificationMode, pageProofs, pageReclaimProofs,
       minting >>

wizardVars == << verificationStates, verifications, pageVars >>

vars == << registryVars, relayVars, wizardVars >>

\* The default value of a mapping entry that was never written.
EmptyProof ==
    [holder |-> ZeroAddress, verifiedProviders |-> <<>>,
     verificationCount |-> 0, timestamp |-> 0, verified |-> FALSE]

\* The contract storage as one value, so that a call inside a call can be
\* computed on it.
Storage ==
    [tokenIdCounter |-> tokenIdCounter, owners |-> owners,
     socialProofs |-> socialProofs, holderTokens |-> holderTokens,
     hasMinted |-> hasMinted, supportedProviders |-> supportedProviders,
     reclaimAddress |-> reclaimAddress]

Revert(st, msg) == [ok |-> FALSE, err |-> msg, st |-> st, ret |-> NoToken]
Return(st, ret) == [ok |-> TRUE, err |-> "", st |-> st, ret |-> ret]

Uint8(n) == n % Uint8Mod

(***************************************************************************)
(* The oracle (Reclaim.verifyProof) is opaque: it reverts unless the       *)
(* proof's signatures check out.  A call to an address that holds no       *)
(* contract code reverts as well.                                          *)
(***************************************************************************)
OracleAccepts(st, proof) ==
    st.reclaimAddress = ReclaimSepolia /\ proof.valid

\* Variant of VerifyBatch without the supportedProviders check.
VerifyBatch_NoSupportCheck(st, proofs, providers, i) ==
    IF \E j \in i .. Len(proofs) : ~OracleAccepts(st, proofs[j])
    THEN "Reclaim: proof rejected"
    ELSE ""

\* Variant of VerifyBatch that stops after the first entry of the batch.
VerifyBatch_FirstOnly(st, proofs, providers, i) ==
    IF i > Len(proofs) \/ i > 1 THEN ""
    ELSE IF providers[i] \notin st.supportedProviders
         THEN "Unsupported provider"
    ELSE IF ~OracleAccepts(st, proofs[i])
         THEN "Reclaim: proof rejected"
    ELSE ""

\* _verifyReclaimProof inside the loop of the two verifying entry points:
\* the message of the first failing require, or "" when the whole batch
\* passes.
RECURSIVE VerifyBatch(_, _, _, _)
VerifyBatch(st, proofs, providers, i) ==
    IF i > Len(proofs) THEN ""
    ELSE IF providers[i] \notin st.supportedProviders
         THEN "Unsupported provider"
    ELSE IF ~OracleAccepts(st, proofs[i])
         THEN "Reclaim: proof rejected"
    ELSE VerifyBatch(st, proofs, providers, i + 1)

\* What a recipient contract does in onERC721Received.
HookAccept == [kind |-> "accept", proofs |-> <<>>, providers |-> <<>>]
HookReject == [kind |-> "reject", proofs |-> <<>>, providers |-> <<>>]
HookReenter(proofs, providers) ==
    [kind |-> "reenter", proofs |-> proofs, providers |-> providers]

\* Variant of NewSocialProof that leaves the timestamp at its default.
NewSocialProof_NoTimestamp(holder, providers, now) ==
    [holder |-> holder, verifiedProviders |-> providers,
     verificationCount |-> Uint8(Len(providers)), timestamp |-> 0,
     verified |-> TRUE]

\* The record a mint writes into socialProofs.
NewSocialProof(holder, providers, now) ==
    [holder |-> holder, verifiedProviders |-> providers,
     verificationCount |-> Uint8(Len(providers)), timestamp |-> now,
     verified |-> TRUE]

RECURSIVE SafeMint(_, _, _, _, _)
RECURSIVE MintWithProofVerification(_, _, _, _, _, _)

\* ERC721._safeMint: _mint, then the recipient's hook when the recipient is
\* a contract.  The hook runs before the caller of _safeMint continues.
SafeMint(st, to, tokenId, hook, now) ==
    IF to = ZeroAddress
    THEN Revert(st, "ERC721: mint to the zero address")
    ELSE IF st.owners[tokenId] # ZeroAddress
    THEN Revert(st, "ERC721: token already minted")
    ELSE
      LET st1 == [st EXCEPT !.owners[tokenId] = to] IN
      IF to \notin ContractAccounts \/ hook.kind = "accept"
      THEN Return(st1, tokenId)
      ELSE IF hook.kind = "reject"
      THEN Revert(st, "ERC721: transfer to non ERC721Receiver implementer")
      ELSE
        LET r == MintWithProofVerification(st1, to, hook.proofs,
                                           hook.providers, HookAccept, now)
        IN IF r.ok THEN Return(r.st, tokenId) ELSE Revert(st, r.err)

\* Variant of MintWithProofVerification in which a mint that fails in
\* _safeMint keeps the counter it incremented.
MintWithProofVerification_CountsFailed(st, sender, proofs, providers, hook, now) ==
    IF Len(proofs) = 0
    THEN Revert(st, "At least one proof required")
    ELSE IF Len(proofs) # Len(providers)
    THEN Revert(st, "Proofs and providers length mismatch")
    ELSE IF st.hasMinted[sender]
    THEN Revert(st, "Already minted")
    ELSE IF VerifyBatch(st, proofs, providers, 1) # ""
    THEN Revert(st, VerifyBatch(st, proofs, providers, 1))
    ELSE
      LET tokenId == st.tokenIdCounter
          st1 == [st EXCEPT !.tokenIdCounter = tokenId + 1]
          m == SafeMint(st1, sender, tokenId, hook, now)
      IN IF ~m.ok THEN Revert(st1, m.err)
         ELSE Return(
                [m.st EXCEPT
                   !.socialProofs[tokenId] =
                       NewSocialProof(sender, providers, now),
                   !.holderTokens[sender] = Append(@, tokenId),
                   !.hasMinted[sender] = TRUE],
                tokenId)

\* mintWithProofVerification(proofs, providers), msg.sender = sender.
MintWithProofVerification(st, sender, proofs, providers, hook, now) ==
    IF Len(proofs) = 0
    THEN Revert(st, "At least one proof required")
    ELSE IF Len(proofs) # Len(providers)
    THEN Revert(st, "Proofs and providers length mismatch")
    ELSE IF st.hasMinted[sender]
    THEN Revert(st, "Already minted")
    ELSE IF VerifyBatch(st, proofs, providers, 1) # ""
    THEN Revert(st, VerifyBatch(st, proofs, providers, 1))
    ELSE
      LET tokenId == st.tokenIdCounter
          st1 == [st EXCEPT !.tokenIdCounter = tokenId + 1]
          m == SafeMint(st1, sender, tokenId, hook, now)
      IN IF ~m.ok THEN Revert(st, m.err)
         ELSE Return(
                [m.st EXCEPT
                   !.socialProofs[tokenId] =
                       NewSocialProof(sender, providers, now),
                   !.holderTokens[sender] = Append(@, tokenId),
                   !.hasMinted[sender] = TRUE],
                tokenId)

\* Variant of MintSocialProofPass without the "Already minted" check, as in
\* the URI-storage version of the contract (part_000, lines 194-228).
MintSocialProofPass_NoMintedCheck(st, sender, to, providers, hook, now) ==
    IF sender # ContractOwner
    THEN Revert(st, "Ownable: caller is not the owner")
    ELSE IF Len(providers) = 0
    THEN Revert(st, "At least one provider required")
    ELSE
      LET tokenId == st.tokenIdCounter
          st1 == [st EXCEPT !.tokenIdCounter = tokenId + 1]
          m == SafeMint(st1, to, tokenId, hook, now)
      IN IF ~m.ok THEN Revert(st, m.err)
         ELSE Return(
                [m.st EXCEPT
                   !.socialProofs[tokenId] =
                       NewSocialProof(to, providers, now),
                   !.holderTokens[to] = Append(@, tokenId),
                   !.hasMinted[to] = TRUE],
                tokenId)

\* Variant of MintSocialProofPass without the onlyOwner modifier.
MintSocialProofPass_NoOwnerCheck(st, sender, to, providers, hook, now) ==
    IF Len(providers) = 0
    THEN Revert(st, "At least one provider required")
    ELSE IF st.hasMinted[to]
    THEN Revert(st, "Already minted")
    ELSE
      LET tokenId == st.tokenIdCounter
          st1 == [st EXCEPT !.tokenIdCounter = tokenId + 1]
          m == SafeMint(st1, to, tokenId, hook, now)
      IN IF ~m.ok THEN Revert(st, m.err)
         ELSE Return(
                [m.st EXCEPT
                   !.socialProofs[tokenId] =
                       NewSocialProof(to, providers, now),
                   !.holderTokens[to] = Append(@, tokenId),
                   !.hasMinted[to] = TRUE],
                tokenId)

\* mintSocialProofPass(to, providers, proofData), msg.sender = sender.
MintSocialProofPass(st, sender, to, providers, hook, now) ==
    IF sender # ContractOwner
    THEN Revert(st, "Ownable: caller is not the owner")
    ELSE IF Len(providers) = 0
    THEN Revert(st, "At least one provider required")
    ELSE IF st.hasMinted[to]
    THEN Revert(st, "Already minted")
    ELSE
      LET tokenId == st.tokenIdCounter
          st1 == [st EXCEPT !.tokenIdCounter = tokenId + 1]
          m == SafeMint(st1, to, tokenId, hook, now)
      IN IF ~m.ok THEN Revert(st, m.err)
         ELSE Return(
                [m.st EXCEPT
                   !.socialProofs[tokenId] =
                       NewSocialProof(to, providers, now),
                   !.holderTokens[to] = Append(@, tokenId),
                   !.hasMinted[to] = TRUE],
                tokenId)

\* _exists(tokenId)
Exists(st, tokenId) ==
    tokenId \in TokenIds /\ st.owners[tokenId] # ZeroAddress

\* Variant of AddProvidersWithVerification that compares the caller with
\* the recorded holder instead of ownerOf(tokenId).
AddProvidersWithVerification_HolderCheck(st, sender, tokenId, newProofs, newProviders, now) ==
    IF ~Exists(st, tokenId)
    THEN Revert(st, "Token does not exist")
    ELSE IF st.socialProofs[tokenId].holder # sender
    THEN Revert(st, "Not token owner")
    ELSE IF Len(newProofs) # Len(newProviders)
    THEN Revert(st, "Arrays length mismatch")
    ELSE IF VerifyBatch(st, newProofs, newProviders, 1) # ""
    THEN Revert(st, VerifyBatch(st, newProofs, newProviders, 1))
    ELSE
      LET grown == st.socialProofs[tokenId].verifiedProviders \o newProviders
      IN Return(
           [st EXCEPT
              !.socialProofs[tokenId].verifiedProviders = grown,
              !.socialProofs[tokenId].verificationCount = Uint8(Len(grown)),
              !.socialProofs[tokenId].timestamp = now],
           tokenId)

\* addProvidersWithVerification(tokenId, newProofs, newProviders)
AddProvidersWithVerification(st, sender, tokenId, newProofs, newProviders, now) ==
    IF ~Exists(st, tokenId)
    THEN Revert(st, "Token does not exist")
    ELSE IF st.owners[tokenId] # sender
    THEN Revert(st, "Not token owner")
    ELSE IF Len(newProofs) # Len(newProviders)
    THEN Revert(st, "Arrays length mismatch")
    ELSE IF VerifyBatch(st, newProofs, newProviders, 1) # ""
    THEN Revert(st, VerifyBatch(st, newProofs, newProviders, 1))
    ELSE
      LET grown == st.socialProofs[tokenId].verifiedProviders \o newProviders
      IN Return(
           [st EXCEPT
              !.socialProofs[tokenId].verifiedProviders = grown,
              !.socialProofs[tokenId].verificationCount = Uint8(Len(grown)),
              !.socialProofs[tokenId].timestamp = now],
           tokenId)

\* hasAlreadyMinted(user)
HasAlreadyMinted(st, user) == st.hasMinted[user]

\* getTokensByOwner(owner)
GetTokensByOwner(st, owner) == st.holderTokens[owner]

\* getSocialProof(tokenId): the five values returned.
GetSocialProof(st, tokenId) ==
    IF ~Exists(st, tokenId)
    THEN Revert(st, "Token does not exist")
    ELSE Return(st, st.socialProofs[tokenId])

\* Strings.toString(value): the decimal digits of value, most significant
\* first.
RECURSIVE UintToString(_)
UintToString(value) ==
    IF value < 10 THEN << value >>
    ELSE UintToString(value \div 10) \o << value % 10 >>

\* tokenURI(tokenId): the JSON document the packed string spells out.
TokenURI(st, tokenId) ==
    IF ~Exists(st, tokenId)
    THEN Revert(st, "Token does not exist")
    ELSE Return(st,
           [scheme |-> "data:application/json,",
            name |-> [text |-> "Social Proof Pass #",
                      number |-> UintToString(tokenId)],
            description |-> "zkTLS verified social proof NFT",
            attributes |->
              << [trait_type |-> "Count",
                  value |-> UintToString(
                              st.socialProofs[tokenId].verificationCount)],
                 [trait_type |-> "Method", value |-> "zkTLS"],
                 [trait_type |-> "Status", value |-> "Verified"] >>])

\* Variant of AddVerifiedProviders that overwrites the list.
AddVerifiedProviders_Replace(st, sender, tokenId, newProviders) ==
    IF sender # ContractOwner
    THEN Revert(st, "Ownable: caller is not the owner")
    ELSE IF ~Exists(st, tokenId)
    THEN Revert(st, "Token does not exist")
    ELSE IF Len(newProviders) = 0
    THEN Revert(st, "No providers to add")
    ELSE Return(
           [st EXCEPT
              !.socialProofs[tokenId].verifiedProviders = newProviders,
              !.socialProofs[tokenId].verificationCount =
                  Uint8(Len(newProviders))],
           tokenId)

\* addVerifiedProviders(tokenId, newProviders, newProofData) of the
\* URI-storage version of the contract (off-chain append, owner only).
AddVerifiedProviders(st, sender, tokenId, newProviders) ==
    IF sender # ContractOwner
    THEN Revert(st, "Ownable: caller is not the owner")
    ELSE IF ~Exists(st, tokenId)
    THEN Revert(st, "Token does not exist")
    ELSE IF Len(newProviders) = 0
    THEN Revert(st, "No providers to add")
    ELSE
      LET grown == st.socialProofs[tokenId].verifiedProviders \o newProviders
      IN Return(
           [st EXCEPT
              !.socialProofs[tokenId].verifiedProviders = grown,
              !.socialProofs[tokenId].verificationCount = Uint8(Len(grown))],
           tokenId)

\* getReclaimAddress()
GetReclaimAddress(st) == st.reclaimAddress

\* supportedProviders(provider), the getter of the public mapping
IsSupportedProvider(st, provider) == provider \in st.supportedProviders

\* Variant of AddSupportedProvider without the onlyOwner modifier.
AddSupportedProvider_NoOwnerCheck(st, sender, provider) ==
    Return([st EXCEPT !.supportedProviders = @ \cup {provider}], NoToken)

\* addSupportedProvider(provider)
AddSupportedProvider(st, sender, provider) ==
    IF sender # ContractOwner
    THEN Revert(st, "Ownable: caller is not the owner")
    ELSE Return([st EXCEPT !.supportedProviders = @ \cup {provider}],
                NoToken)

\* removeSupportedProvider(provider)
RemoveSupportedProvider(st, sender, provider) ==
    IF sender # ContractOwner
    THEN Revert(st, "Ownable: caller is not the owner")
    ELSE Return([st EXCEPT !.supportedProviders = @ \ {provider}], NoToken)

\* updateReclaimAddress(newReclaimAddress)
UpdateReclaimAddress(st, sender, newReclaimAddress) ==
    IF sender # ContractOwner
    THEN Revert(st, "Ownable: caller is not the owner")
    ELSE Return([st EXCEPT !.reclaimAddress = newReclaimAddress], NoToken)

\* Variant of TransferFrom that clears the sender's mint flag.
TransferFrom_ResetsMinted(st, sender, from, to, tokenId) ==
    IF ~Exists(st, tokenId)
    THEN Revert(st, "ERC721: invalid token ID")
    ELSE IF st.owners[tokenId] # sender
    THEN Revert(st, "ERC721: caller is not token owner or approved")
    ELSE IF st.owners[tokenId] # from
    THEN Revert(st, "ERC721: transfer from incorrect owner")
    ELSE IF to = ZeroAddress
    THEN Revert(st, "ERC721: transfer to the zero address")
    ELSE Return([st EXCEPT !.owners[tokenId] = to,
                           !.hasMinted[from] = FALSE], tokenId)

\* Variant of TransferFrom that rewrites the record's holder.
TransferFrom_MovesHolder(st, sender, from, to, tokenId) ==
    IF ~Exists(st, tokenId)
    THEN Revert(st, "ERC721: invalid token ID")
    ELSE IF st.owners[tokenId] # sender
    THEN Revert(st, "ERC721: caller is not token owner or approved")
    ELSE IF st.owners[tokenId] # from
    THEN Revert(st, "ERC721: transfer from incorrect owner")
    ELSE IF to = ZeroAddress
    THEN Revert(st, "ERC721: transfer to the zero address")
    ELSE Return([st EXCEPT !.owners[tokenId] = to,
                           !.socialProofs[tokenId].holder = to], tokenId)

\* ERC721.transferFrom(from, to, tokenId), inherited; approvals are not
\* used, so only the token's owner may call it.
TransferFrom(st, sender, from, to, tokenId) ==
    IF ~Exists(st, tokenId)
    THEN Revert(st, "ERC721: invalid token ID")
    ELSE IF st.owners[tokenId] # sender
    THEN Revert(st, "ERC721: caller is not token owner or approved")
    ELSE IF st.owners[tokenId] # from
    THEN Revert(st, "ERC721: transfer from incorrect owner")
    ELSE IF to = ZeroAddress
    THEN Revert(st, "ERC721: transfer to the zero address")
    ELSE Return([st EXCEPT !.owners[tokenId] = to], tokenId)

(***************************************************************************)
(* The backend (server.js).  A JavaScript Map keeps its entries in         *)
(* insertion order, and set() on a key that is present replaces the value  *)
(* where it stands: a Map is a sequence of entries with distinct keys.     *)
(***************************************************************************)
ProviderKeys == {"github", "gmail", "linkedin", "twitter"}

\* Names every JavaScript object inherits from Object.prototype; looking one
\* up in PROVIDERS yields a function, which is truthy.
InheritedKeys == {"constructor"}

\* Provider names and wallet addresses that requests carry.
RequestProviders == {"github", "gmail", "discord", "constructor"}
Wallets == {Alice, Mallory}
NoWallet == ""

NullKey == << "", 0 >>
\* Proof bodies: origin is the session whose request URL the proof was
\* produced through (NullKey: none of this backend's), valid the oracle's
\* verdict.  Garbage stands for a body that does not decode.
NullProof == [origin |-> NullKey, valid |-> FALSE]
ForeignProof == [origin |-> NullKey, valid |-> TRUE]
Garbage == [origin |-> << "%", 0 >>, valid |-> FALSE]

\* `${provider}-${Date.now()}`
KeyOf(provider, t) == << provider, t >>

MapHas(map, key) == \E i \in 1 .. Len(map) : map[i].id = key
MapIndex(map, key) == CHOOSE i \in 1 .. Len(map) : map[i].id = key
MapGet(map, key) == map[MapIndex(map, key)]

\* Variant of MapSet that adds an entry even when the key is present.
MapSet_AlwaysAppend(map, key, value) == Append(map, value)

\* Map.prototype.set
MapSet(map, key, value) ==
    IF MapHas(map, key)
    THEN [map EXCEPT ![MapIndex(map, key)] = value]
    ELSE Append(map, value)

\* The two maps as one value.
Store == [sessions |-> verificationSessions, proofs |-> verificationProofs]

\* PROVIDERS[provider] is truthy
ProviderKnown(provider) == provider \in ProviderKeys \cup InheritedKeys

\* The three credentials /generate-config reads for a provider, and the
\* values one may have: a real value, undefined (not in the environment),
\* or the placeholder of the sample .env, which includes 'your_'.
CredentialFields == {"APP_ID", "APP_SECRET", "PROVIDER_ID"}
Present == "0x5a1e"
Absent == "undefined"
Placeholder == "your_value_here"

\* PROVIDERS[provider][field]; an inherited key is a function and has no
\* such property.
CredentialOf(creds, provider, field) ==
    IF provider \in ProviderKeys THEN creds[provider][field] ELSE Absent

\* Variant of CredentialsOk that looks at APP_ID only.
CredentialsOk_AppIdOnly(creds, provider) ==
    CredentialOf(creds, provider, "APP_ID") \notin {Absent, Placeholder}

\* The credential check of /generate-config: all three values present and
\* none of them a placeholder.
CredentialsOk(creds, provider) ==
    \A field \in CredentialFields :
      CredentialOf(creds, provider, field) \notin {Absent, Placeholder}

\* A response and the store after the request.  oracle: whether the handler
\* called the Reclaim SDK (init / getRequestUrl / verifyProof).  sessionId:
\* the session id a /generate-config answer carries, NullKey elsewhere.
Reply(code, body, store) ==
    [code |-> code, body |-> body, store |-> store, oracle |-> FALSE,
     sessionId |-> NullKey]

OracleReply(code, body, store) ==
    [code |-> code, body |-> body, store |-> store, oracle |-> TRUE,
     sessionId |-> NullKey]

\* GET /generate-config?provider&address.  t is Date.now() when the session
\* id is built, t2 when createdAt is read; oracleUp tells whether the SDK
\* calls (init, getRequestUrl) succeed.
GenerateConfig(store, creds, provider, address, oracleUp, t, t2) ==
    IF ~ProviderKnown(provider)
    THEN Reply(400, "Invalid provider", store)
    ELSE IF ~CredentialsOk(creds, provider)
    THEN Reply(500, "Provider not configured", store)
    ELSE IF ~oracleUp
    THEN OracleReply(500, "Failed to generate request config", store)
    ELSE
      LET sessionId == KeyOf(provider, t)
          session == [id |-> sessionId, provider |-> provider,
                      status |-> "pending", address |-> address,
                      createdAt |-> t2, proofKey |-> NullKey,
                      proof |-> NullProof, verifiedAt |-> 0]
      IN [OracleReply(200, "config",
                [store EXCEPT !.sessions = MapSet(@, sessionId, session)])
            EXCEPT !.sessionId = sessionId]

\* Variant of FirstPending that does not look at the status: the first
\* session of the provider.
FirstPending_AnyStatus(sessions, provider) ==
    LET hits == { i \in 1 .. Len(sessions) : sessions[i].provider = provider }
    IN IF hits = {} THEN 0 ELSE CHOOSE i \in hits : \A j \in hits : i <= j

\* The loop of /receive-proofs: the first entry, in iteration order, that is
\* pending and of this provider; 0 when there is none.
FirstPending(sessions, provider) ==
    LET hits == { i \in 1 .. Len(sessions) :
                    /\ sessions[i].provider = provider
                    /\ sessions[i].status = "pending" }
    IN IF hits = {} THEN 0 ELSE CHOOSE i \in hits : \A j \in hits : i <= j

\* Variant of ReceiveProofs whose loop has no break: every pending session
\* of the provider is promoted.
ReceiveProofs_NoBreak(store, provider, body, t) ==
    IF ~ProviderKnown(provider)
    THEN Reply(400, "Invalid provider", store)
    ELSE IF body = Garbage
    THEN Reply(500, "Failed to process proof", store)
    ELSE IF ~body.valid
    THEN OracleReply(400, "Invalid proof", store)
    ELSE
      LET proofKey == KeyOf(provider, t)
          stored == [id |-> proofKey, provider |-> provider, proof |-> body,
                     timestamp |-> t, status |-> "verified"]
          promoted ==
            [i \in 1 .. Len(store.sessions) |->
               IF /\ store.sessions[i].provider = provider
                  /\ store.sessions[i].status = "pending"
               THEN [store.sessions[i] EXCEPT !.status = "verified",
                                              !.proofKey = proofKey,
                                              !.proof = body,
                                              !.verifiedAt = t]
               ELSE store.sessions[i]]
      IN OracleReply(200, "OK",
               [sessions |-> promoted,
                proofs |-> MapSet(store.proofs, proofKey, stored)])

\* Variant of ReceiveProofs that resolves the session by the identifier of
\* the session the proof was produced for.
ReceiveProofs_BySessionId(store, provider, body, t) ==
    IF ~ProviderKnown(provider)
    THEN Reply(400, "Invalid provider", store)
    ELSE IF body = Garbage
    THEN Reply(500, "Failed to process proof", store)
    ELSE IF ~body.valid
    THEN OracleReply(400, "Invalid proof", store)
    ELSE
      LET proofKey == KeyOf(provider, t)
          stored == [id |-> proofKey, provider |-> provider, proof |-> body,
                     timestamp |-> t, status |-> "verified"]
          promoted ==
            [i \in 1 .. Len(store.sessions) |->
               IF /\ store.sessions[i].id = body.origin
                  /\ store.sessions[i].status = "pending"
               THEN [store.sessions[i] EXCEPT !.status = "verified",
                                              !.proofKey = proofKey,
                                              !.proof = body,
                                              !.verifiedAt = t]
               ELSE store.sessions[i]]
      IN OracleReply(200, "OK",
               [sessions |-> promoted,
                proofs |-> MapSet(store.proofs, proofKey, stored)])

\* POST /receive-proofs/:provider.  body is the decoded proof, or Garbage
\* when the body does not decode; verifyProof is the oracle's answer.
ReceiveProofs(store, provider, body, t) ==
    IF ~ProviderKnown(provider)
    THEN Reply(400, "Invalid provider", store)
    ELSE IF body = Garbage
    THEN Reply(500, "Failed to process proof", store)
    ELSE IF ~body.valid
    THEN OracleReply(400, "Invalid proof", store)
    ELSE
      LET proofKey == KeyOf(provider, t)
          stored == [id |-> proofKey, provider |-> provider, proof |-> body,
                     timestamp |-> t, status |-> "verified"]
          i == FirstPending(store.sessions, provider)
          promoted ==
            IF i = 0 THEN store.sessions
            ELSE [store.sessions EXCEPT
                    ![i] = [@ EXCEPT !.status = "verified",
                                     !.proofKey = proofKey,
                                     !.proof = body,
                                     !.verifiedAt = t]]
      IN OracleReply(200, "OK",
               [sessions |-> promoted,
                proofs |-> MapSet(store.proofs, proofKey, stored)])

\* Variant of LatestSession that keeps the first session of the provider.
LatestSession_First(sessions, provider, i, latest) ==
    LET hits == { j \in 1 .. Len(sessions) : sessions[j].provider = provider }
    IN IF hits = {} THEN 0 ELSE CHOOSE j \in hits : \A k \in hits : j <= k

\* The loop of /verification-status: the index of the latest session of this
\* provider, 0 when there is none.  A later entry replaces the candidate
\* only when its createdAt is strictly larger.
RECURSIVE LatestSession(_, _, _, _)
LatestSession(sessions, provider, i, latest) ==
    IF i > Len(sessions) THEN latest
    ELSE IF /\ sessions[i].provider = provider
            /\ (latest = 0 \/ sessions[i].createdAt > sessions[latest].createdAt)
         THEN LatestSession(sessions, provider, i + 1, i)
    ELSE LatestSession(sessions, provider, i + 1, latest)

\* GET /verification-status?provider
VerificationStatus(store, provider) ==
    LET i == LatestSession(store.sessions, provider, 1, 0)
    IN IF i = 0
       THEN [status |-> "not_found", sessionId |-> NullKey,
             proof |-> NullProof, provider |-> ""]
       ELSE [status |-> store.sessions[i].status,
             sessionId |-> store.sessions[i].id,
             proof |-> store.sessions[i].proof,
             provider |-> store.sessions[i].provider]

\* POST /mint-social-proof-nft, up to the transaction it submits: "tx" when
\* the handler goes on to call the registry, else the error it answers.
MintRequestCheck(env, walletAddress, hasProofs, verifiedProviders) ==
    IF walletAddress = NoWallet \/ ~hasProofs \/ Len(verifiedProviders) = 0
    THEN [code |-> 400, body |-> "Invalid request data"]
    ELSE IF ~env.key \/ ~env.address
    THEN [code |-> 500, body |-> "Server configuration incomplete"]
    ELSE IF ~env.rpc
    THEN [code |-> 500, body |-> "Failed to mint NFT"]
    ELSE [code |-> 200, body |-> "tx"]

\* An entry of receipt.logs: the event and its tokenId argument.
Log(name, tokenId) == [name |-> name, tokenId |-> tokenId]

\* receipt.logs of a confirmed mintSocialProofPass transaction whose result
\* is r: Transfer from _safeMint; when the recipient's hook re-entered
\* mintWithProofVerification, that mint's ProofVerifiedOnChain (one per
\* provider), Transfer and SocialProofPassMinted; then the
\* SocialProofPassMinted of this mint.
ReceiptLogs(st, r, hook) ==
    LET tokenId == r.ret
        inner == r.st.tokenIdCounter = st.tokenIdCounter + 2
    IN << Log("Transfer", tokenId) >>
         \o (IF inner
             THEN [i \in 1 .. Len(hook.providers) |->
                     Log("ProofVerifiedOnChain", tokenId + 1)]
                    \o << Log("Transfer", tokenId + 1),
                          Log("SocialProofPassMinted", tokenId + 1) >>
             ELSE <<>>)
         \o << Log("SocialProofPassMinted", tokenId) >>

\* The logs of a successful mintWithProofVerification whose result is r:
\* one ProofVerifiedOnChain per provider, carrying _tokenIdCounter.current()
\* as it is inside the loop; Transfer from _safeMint; when the sender's hook
\* re-entered the function, the logs of that mint, which reads the counter
\* after this mint incremented it; then SocialProofPassMinted.
ProofMintLogs(st, r, providers, hook) ==
    LET tokenId == r.ret
        inner == r.st.tokenIdCounter = st.tokenIdCounter + 2
    IN [i \in 1 .. Len(providers) |->
          Log("ProofVerifiedOnChain", st.tokenIdCounter)]
         \o << Log("Transfer", tokenId) >>
         \o (IF inner
             THEN [i \in 1 .. Len(hook.providers) |->
                     Log("ProofVerifiedOnChain", st.tokenIdCounter + 1)]
                    \o << Log("Transfer", tokenId + 1),
                          Log("SocialProofPassMinted", tokenId + 1) >>
             ELSE <<>>)
         \o << Log("SocialProofPassMinted", tokenId) >>

\* The events NFT_CONTRACT_ABI declares.
AbiEvents == {"SocialProofPassMinted", "ProofVerifiedOnChain"}

\* The tokenId of a mint response: the digits of the id, or the placeholder
\* 'unknown'.
UnknownTokenId == [known |-> FALSE, digits |-> <<>>]

\* BigInt.prototype.toString
BigIntToString(n) == [known |-> TRUE, digits |-> UintToString(n)]

\* The callback of receipt.logs.find: parseLog yields an event named
\* SocialProofPassMinted.  decodes: whether the logs of the deployed contract
\* decode against NFT_CONTRACT_ABI.
IsMintEvent(log, decodes) ==
    decodes /\ log.name \in AbiEvents /\ log.name = "SocialProofPassMinted"

\* Extract tokenId from event logs: the tokenId of the first log that parses
\* as SocialProofPassMinted, 'unknown' when there is none.
ExtractTokenId(logs, decodes) ==
    LET hits == { i \in 1 .. Len(logs) : IsMintEvent(logs[i], decodes) }
    IN IF hits = {} THEN UnknownTokenId
       ELSE BigIntToString(
              logs[CHOOSE i \in hits : \A j \in hits : i <= j].tokenId)

\* Variant of MintReply that treats a receipt without mint event as an
\* error.
MintReply_FailsWithoutEvent(r, logs, decodes) ==
    IF ~r.ok \/ ExtractTokenId(logs, decodes) = UnknownTokenId
    THEN [code |-> 500, body |-> "Failed to mint NFT",
          tokenId |-> UnknownTokenId]
    ELSE [code |-> 200, body |-> "success",
          tokenId |-> ExtractTokenId(logs, decodes)]

\* POST /mint-social-proof-nft from the submitted transaction on: r is the
\* result of the transaction; a revert throws in tx.wait() and ends in the
\* catch block.
MintReply(r, logs, decodes) ==
    IF ~r.ok
    THEN [code |-> 500, body |-> "Failed to mint NFT",
          tokenId |-> UnknownTokenId]
    ELSE [code |-> 200, body |-> "success",
          tokenId |-> ExtractTokenId(logs, decodes)]

(***************************************************************************)
(* POST /prepare-onchain-mint.  JSON values carry their JavaScript type,   *)
(* since the handler's `||` tells falsy values from truthy ones.           *)
(***************************************************************************)
MsPerSecond == 1000

JsUndefined == [type |-> "undefined", val |-> ""]
JsNull == [type |-> "null", val |-> ""]
JsString(s) == [type |-> "string", val |-> s]
JsNumber(n) == [type |-> "number", val |-> n]
JsArray(a) == [type |-> "array", val |-> a]

\* ToBoolean: undefined, null, "" and 0 are falsy; an array is truthy also
\* when it is empty.
Truthy(v) ==
    CASE v.type \in {"undefined", "null"} -> FALSE
      [] v.type = "string" -> v.val # ""
      [] v.type = "number" -> v.val # 0
      [] OTHER -> TRUE

\* v || default
JsOr(v, default) == IF Truthy(v) THEN v ELSE default

\* statusData.reclaimProof of a /verification-status answer: the response
\* object has the properties status, sessionId, proof and provider, so the
\* read yields undefined.
ReclaimProofOf(statusData) == JsUndefined

ZeroIdentifier ==
    "0x0000000000000000000000000000000000000000000000000000000000000000"

\* The properties of a raw proof that the handler reads.
ProofFields ==
    {"provider", "parameters", "context", "identifier", "owner",
     "timestampS", "epoch", "signatures"}

\* Math.floor(Date.now() / 1000)
NowSeconds(now) == now \div MsPerSecond

\* The callback of map: one raw proof to the claim/signature tuple of the
\* registry.
TransformProof(proof, walletAddress, now) ==
    [claimInfo |->
       [provider |-> JsOr(proof.provider, JsString("")),
        parameters |-> JsOr(proof.parameters, JsString("")),
        context |-> JsOr(proof.context, JsString(""))],
     signedClaim |->
       [claim |->
          [identifier |-> JsOr(proof.identifier, JsString(ZeroIdentifier)),
           owner |-> JsOr(proof.owner, JsString(walletAddress)),
           timestampS |-> JsOr(proof.timestampS,
                               JsNumber(NowSeconds(now))),
           epoch |-> JsOr(proof.epoch, JsNumber(1))],
        signatures |-> JsOr(proof.signatures, JsArray(<<>>))]]

\* POST /prepare-onchain-mint.  reclaimProofs and verifiedProviders are
\* JsUndefined when the body lacks them; reclaimProofs otherwise holds the
\* sequence Object.values yields, whose entries are objects or null.
\* Reading a property of null throws.  networkUp: getNetwork() answers.
PrepareOnchainMint(walletAddress, reclaimProofs, verifiedProviders, networkUp, now) ==
    IF \/ walletAddress = NoWallet
       \/ ~Truthy(reclaimProofs)
       \/ ~Truthy(verifiedProviders)
    THEN [code |-> 400, body |-> "Invalid request data",
          transformedProofs |-> <<>>]
    ELSE IF \E i \in 1 .. Len(reclaimProofs.val) :
              reclaimProofs.val[i].type = "null"
    THEN [code |-> 500, body |-> "Failed to prepare on-chain mint",
          transformedProofs |-> <<>>]
    ELSE IF ~networkUp
    THEN [code |-> 500, body |-> "Failed to prepare on-chain mint",
          transformedProofs |-> <<>>]
    ELSE [code |-> 200, body |-> "payload",
          transformedProofs |->
            [i \in 1 .. Len(reclaimProofs.val) |->
               TransformProof(reclaimProofs.val[i], walletAddress, now)]]

(***************************************************************************)
(* The registry as a state machine: one action per transaction.  A         *)
(* reverted transaction leaves the storage as it was; `last` records what  *)
(* was called and how it ended.                                            *)
(***************************************************************************)
Hooks ==
    { HookAccept, HookReject,
      HookReenter(<< GoodProof >>, << "github" >>),
      HookReenter(<< BadProof >>, << "github" >>) }

\* last: the entry point called last, the account the call was about (the
\* recipient of a mint, the caller of an append), the revert message ("" for
\* success), the returned token id, and the position of the first proof of
\* the batch that the oracle rejects (0 when it accepts them all).
NoCall ==
    [op |-> "deploy", to |-> ZeroAddress, err |-> "", ret |-> NoToken,
     badAt |-> 0]

\* Writes the storage a call leaves behind into the variables.
Commit(r) ==
    /\ r.st.tokenIdCounter <= MaxTokens
    /\ tokenIdCounter' = r.st.tokenIdCounter
    /\ owners' = r.st.owners
    /\ socialProofs' = r.st.socialProofs
    /\ holderTokens' = r.st.holderTokens
    /\ hasMinted' = r.st.hasMinted
    /\ supportedProviders' = r.st.supportedProviders
    /\ reclaimAddress' = r.st.reclaimAddress

RejectedAt(st, proofs) ==
    LET bad == { i \in 1 .. Len(proofs) : ~OracleAccepts(st, proofs[i]) }
    IN IF bad = {} THEN 0 ELSE CHOOSE i \in bad : \A j \in bad : i <= j

RegistryInit ==
    /\ tokenIdCounter = 0
    /\ owners = [t \in TokenIds |-> ZeroAddress]
    /\ socialProofs = [t \in TokenIds |-> EmptyProof]
    /\ holderTokens = [a \in Addresses |-> <<>>]
    /\ hasMinted = [a \in Addresses |-> FALSE]
    /\ supportedProviders = {"github", "gmail", "linkedin", "twitter"}
    /\ reclaimAddress = ReclaimSepolia
    /\ blockTime = 1
    /\ last = NoCall

TxMintSocialProofPass ==
    \E sender \in {ContractOwner, Alice}, to \in {ZeroAddress, Alice, Mallory},
       providers \in MintLists, hook \in Hooks :
      LET r == MintSocialProofPass(Storage, sender, to, providers, hook,
                                   blockTime)
      IN /\ to \in ContractAccounts \/ hook = HookAccept
         /\ Commit(r)
         /\ last' = [op |-> "mintSocialProofPass", to |-> to, err |-> r.err,
                     ret |-> r.ret, badAt |-> 0]
         /\ UNCHANGED << blockTime, relayVars, wizardVars >>

TxMintWithProofVerification ==
    \E sender \in {Alice, Mallory}, proofs \in ProofLists,
       providers \in MintLists \ {LongList}, hook \in Hooks :
      LET r == MintWithProofVerification(Storage, sender, proofs, providers,
                                         hook, blockTime)
      IN /\ sender \in ContractAccounts \/ hook = HookAccept
         /\ Commit(r)
         /\ last' = [op |-> "mintWithProofVerification", to |-> sender,
                     err |-> r.err, ret |-> r.ret,
                     badAt |-> RejectedAt(Storage, proofs)]
         /\ UNCHANGED << blockTime, relayVars, wizardVars >>

TxAddProvidersWithVerification ==
    \E sender \in {Alice, Mallory}, tokenId \in 0 .. MaxTokens,
       newProofs \in ProofLists, newProviders \in AppendLists :
      LET r == AddProvidersWithVerification(Storage, sender, tokenId,
                                            newProofs, newProviders, blockTime)
      IN /\ Len(socialProofs[tokenId].verifiedProviders) + Len(newProviders)
              <= MaxProviders
         /\ Commit(r)
         /\ last' = [op |-> "addProvidersWithVerification", to |-> sender,
                     err |-> r.err, ret |-> r.ret,
                     badAt |-> RejectedAt(Storage, newProofs)]
         /\ UNCHANGED << blockTime, relayVars, wizardVars >>

\* A later block.
MineBlock ==
    /\ blockTime < MaxBlockTime
    /\ blockTime' = blockTime + 1
    /\ UNCHANGED << tokenIdCounter, owners, socialProofs, holderTokens,
                    hasMinted, supportedProviders, reclaimAddress, last,
                    relayVars, wizardVars >>

(***************************************************************************)
(* The registry with its owner-only functions and token transfers.  The    *)
(* mints take the inputs of a well-behaved recipient here; the recipient   *)
(* hooks are exercised by Spec.                                            *)
(***************************************************************************)
AdminSenders == {ContractOwner, Alice}
AdminLists == { <<>>, <<"github">>, <<"github", "gmail">> }
AdminProofs == { <<GoodProof>>, <<BadProof>>, <<GoodProof, GoodProof>> }
ToggledProviders == {"github"}
AdminAppends == { <<>>, <<"gmail">> }

CallMintSocialProofPass ==
    \E sender \in AdminSenders, to \in {ZeroAddress, Alice, Mallory},
       providers \in AdminLists :
      LET r == MintSocialProofPass(Storage, sender, to, providers,
                                   HookAccept, blockTime)
      IN /\ Commit(r)
         /\ last' = [op |-> "mintSocialProofPass", to |-> to, err |-> r.err,
                     ret |-> r.ret, badAt |-> 0]
         /\ UNCHANGED << blockTime, relayVars, wizardVars >>

CallMintWithProofVerification ==
    \E sender \in {Alice, Mallory}, proofs \in AdminProofs,
       providers \in AdminLists :
      LET r == MintWithProofVerification(Storage, sender, proofs, providers,
                                         HookAccept, blockTime)
      IN /\ Commit(r)
         /\ last' = [op |-> "mintWithProofVerification", to |-> sender,
                     err |-> r.err, ret |-> r.ret,
                     badAt |-> RejectedAt(Storage, proofs)]
         /\ UNCHANGED << blockTime, relayVars, wizardVars >>

CallAddProvidersWithVerification ==
    \E sender \in {Alice, Mallory}, tokenId \in 0 .. MaxTokens,
       newProofs \in AdminProofs \cup {<<>>},
       newProviders \in AdminAppends :
      LET r == AddProvidersWithVerification(Storage, sender, tokenId,
                                            newProofs, newProviders, blockTime)
      IN /\ Len(socialProofs[tokenId].verifiedProviders) + Len(newProviders)
              <= MaxProviders
         /\ Commit(r)
         /\ last' = [op |-> "addProvidersWithVerification", to |-> sender,
                     err |-> r.err, ret |-> r.ret,
                     badAt |-> RejectedAt(Storage, newProofs)]
         /\ UNCHANGED << blockTime, relayVars, wizardVars >>

CallAddVerifiedProviders ==
    \E sender \in AdminSenders, tokenId \in 0 .. MaxTokens,
       newProviders \in AdminAppends :
      LET r == AddVerifiedProviders(Storage, sender, tokenId, newProviders)
      IN /\ Len(socialProofs[tokenId].verifiedProviders) + Len(newProviders)
              <= MaxProviders
         /\ Commit(r)
         /\ last' = [op |-> "addVerifiedProviders", to |-> sender,
                     err |-> r.err, ret |-> r.ret, badAt |-> 0]
         /\ UNCHANGED << blockTime, relayVars, wizardVars >>

CallAddSupportedProvider ==
    \E sender \in AdminSenders, provider \in ToggledProviders :
      LET r == AddSupportedProvider(Storage, sender, provider)
      IN /\ Commit(r)
         /\ last' = [op |-> "addSupportedProvider", to |-> sender,
                     err |-> r.err, ret |-> r.ret, badAt |-> 0]
         /\ UNCHANGED << blockTime, relayVars, wizardVars >>

CallRemoveSupportedProvider ==
    \E sender \in AdminSenders, provider \in ToggledProviders :
      LET r == RemoveSupportedProvider(Storage, sender, provider)
      IN /\ Commit(r)
         /\ last' = [op |-> "removeSupportedProvider", to |-> sender,
                     err |-> r.err, ret |-> r.ret, badAt |-> 0]
         /\ UNCHANGED << blockTime, relayVars, wizardVars >>

CallUpdateReclaimAddress ==
    \E sender \in AdminSenders,
       newReclaimAddress \in {ReclaimSepolia, ReclaimOther} :
      LET r == UpdateReclaimAddress(Storage, sender, newReclaimAddress)
      IN /\ Commit(r)
         /\ last' = [op |-> "updateReclaimAddress", to |-> sender,
                     err |-> r.err, ret |-> r.ret, badAt |-> 0]
         /\ UNCHANGED << blockTime, relayVars, wizardVars >>

CallTransferFrom ==
    \E sender \in {Alice, Mallory}, from \in {Alice, Mallory},
       to \in {ZeroAddress, Alice, Mallory}, tokenId \in 0 .. MaxTokens :
      LET r == TransferFrom(Storage, sender, from, to, tokenId)
      IN /\ Commit(r)
         /\ last' = [op |-> "transferFrom", to |-> to, err |-> r.err,
                     ret |-> r.ret, badAt |-> 0]
         /\ UNCHANGED << blockTime, relayVars, wizardVars >>

(***************************************************************************)
(* The backend as a state machine: one action per HTTP request.  The       *)
(* handlers touch the maps only after their last await, so each request    *)
(* acts on the store in one step.                                          *)
(***************************************************************************)
\* resp: the endpoint of the last request, its provider parameter, the HTTP
\* status and message answered; for a mint request the provider list it
\* named, whether a transaction was sent to the registry and the tokenId
\* answered.
\* For /prepare-onchain-mint: the request body and the transformed proofs
\* answered.
NoRequest ==
    [op |-> "listen", provider |-> "", code |-> 0, body |-> "",
     providers |-> <<>>, tx |-> FALSE, tokenId |-> UnknownTokenId,
     request |-> <<>>, transformedProofs |-> <<>>]

AllSet == [p \in ProviderKeys |-> [f \in CredentialFields |-> Present]]

\* .env files the server may be started with.
CredentialConfigs ==
    { AllSet, [AllSet EXCEPT !["gmail"]["APP_ID"] = Placeholder] }

\* .env files in which one credential of gmail is missing or a placeholder.
BrokenConfigs ==
    { [AllSet EXCEPT !["gmail"][f] = v] :
        f \in CredentialFields, v \in {Absent, Placeholder} }

\* Which of RPC_URL, DEPLOYER_PRIVATE_KEY and NFT_CONTRACT_ADDRESS the
\* environment sets.
ChainConfigs ==
    [rpc : BOOLEAN, key : BOOLEAN, address : BOOLEAN]

RelayInit(credentialConfigs, chainConfigs) ==
    /\ verificationSessions = <<>>
    /\ verificationProofs = <<>>
    /\ clock = 1
    /\ credentials \in credentialConfigs
    /\ chainEnv \in chainConfigs
    /\ resp = NoRequest
    /\ callbacks = <<>>

ChainReady == [rpc |-> TRUE, key |-> TRUE, address |-> TRUE]

\* The backend as the registry's transactions see it: started, no request.
RelayIdle == RelayInit({AllSet}, {ChainReady})

\* Proof bodies a callback for `provider` may carry: not decodable, rejected
\* by the oracle, valid but produced elsewhere, or produced through the
\* request URL of one of this provider's sessions (whose callback URL names
\* the provider).
Bodies(provider) ==
    { Garbage, NullProof, ForeignProof }
      \cup { [origin |-> verificationSessions[i].id, valid |-> TRUE] :
               i \in { j \in 1 .. Len(verificationSessions) :
                         verificationSessions[j].provider = provider } }

ReqGenerateConfig(wallets) ==
    \E provider \in RequestProviders, address \in wallets,
       oracleUp \in BOOLEAN, d \in {0, 1} :
      LET r == GenerateConfig(Store, credentials, provider, address, oracleUp,
                              clock, clock + d)
      IN /\ clock + d <= MaxTime
         /\ Len(r.store.sessions) <= MaxSessions
         /\ verificationSessions' = r.store.sessions
         /\ verificationProofs' = r.store.proofs
         /\ clock' = clock + d
         /\ resp' = [NoRequest EXCEPT !.op = "generate-config",
                                      !.provider = provider,
                                      !.code = r.code, !.body = r.body]
         /\ UNCHANGED << credentials, chainEnv, callbacks,
                         registryVars, wizardVars >>

ReqReceiveProofs(providers, verdicts) ==
    \E provider \in providers :
     \E body \in { b \in Bodies(provider) : b.valid \in verdicts } :
      LET r == ReceiveProofs(Store, provider, body, clock)
      IN /\ Len(r.store.proofs) <= MaxStoredProofs
         /\ verificationSessions' = r.store.sessions
         /\ verificationProofs' = r.store.proofs
         /\ resp' = [NoRequest EXCEPT !.op = "receive-proofs",
                                      !.provider = provider,
                                      !.code = r.code, !.body = r.body]
         /\ UNCHANGED << clock, credentials, chainEnv, callbacks,
                         registryVars, wizardVars >>

\* POST /receive-proofs/:provider up to `await verifyProof(proof)`: whether
\* the handler gets there.  An unknown provider is answered 400 and a body
\* that does not decode throws into the catch block.
AwaitsOracle(provider, body) == ProviderKnown(provider) /\ body # Garbage

\* A callback arrives.  The handler runs to its await and is suspended
\* there; other requests are served until the oracle answers.
CallbackArrives(providers) ==
    \E provider \in providers : \E body \in Bodies(provider) :
      LET r == ReceiveProofs(Store, provider, body, clock)
      IN /\ Len(callbacks) < MaxInFlight
         /\ IF AwaitsOracle(provider, body)
            THEN /\ callbacks' =
                      Append(callbacks, [provider |-> provider, body |-> body])
                 /\ UNCHANGED resp
            ELSE /\ resp' = [NoRequest EXCEPT !.op = "receive-proofs",
                                              !.provider = provider,
                                              !.code = r.code,
                                              !.body = r.body]
                 /\ UNCHANGED callbacks
         /\ UNCHANGED << verificationSessions, verificationProofs, clock,
                         credentials, chainEnv, registryVars, wizardVars >>

\* The oracle answers one of the suspended callbacks, in any order: the
\* rest of its handler runs without another await.
CallbackResumes ==
    \E k \in 1 .. Len(callbacks) :
      LET cb == callbacks[k]
          r == ReceiveProofs(Store, cb.provider, cb.body, clock)
      IN /\ Len(r.store.proofs) <= MaxStoredProofs
         /\ verificationSessions' = r.store.sessions
         /\ verificationProofs' = r.store.proofs
         /\ callbacks' = SubSeq(callbacks, 1, k - 1)
                           \o SubSeq(callbacks, k + 1, Len(callbacks))
         /\ resp' = [NoRequest EXCEPT !.op = "receive-proofs",
                                      !.provider = cb.provider,
                                      !.code = r.code, !.body = r.body]
         /\ UNCHANGED << clock, credentials, chainEnv, registryVars,
                         wizardVars >>

ReqVerificationStatus ==
    \E provider \in RequestProviders :
      /\ resp' = [NoRequest EXCEPT
                    !.op = "verification-status", !.provider = provider,
                    !.code = 200,
                    !.body = VerificationStatus(Store, provider).status]
      /\ UNCHANGED << verificationSessions, verificationProofs, clock,
                      credentials, chainEnv, callbacks,
                         registryVars, wizardVars >>

\* Provider lists a mint request may name.
RequestLists == { <<>>, <<"github">>, <<"github", "gmail">> }

ReqMintSocialProofNft ==
    \E walletAddress \in Wallets \cup {NoWallet}, hasProofs \in BOOLEAN,
       verifiedProviders \in RequestLists, hook \in Hooks,
       decodes \in BOOLEAN :
      LET c == MintRequestCheck(chainEnv, walletAddress, hasProofs,
                                verifiedProviders)
          r == MintSocialProofPass(Storage, ContractOwner, walletAddress,
                                   verifiedProviders, hook, blockTime)
          a == MintReply(r, ReceiptLogs(Storage, r, hook), decodes)
      IN /\ walletAddress \in ContractAccounts \/ hook = HookAccept
         /\ IF c.body = "tx"
            THEN /\ Commit(r)
                 /\ last' = [op |-> "mintSocialProofPass",
                             to |-> walletAddress, err |-> r.err,
                             ret |-> r.ret, badAt |-> 0]
                 /\ resp' = [NoRequest EXCEPT
                               !.op = "mint-social-proof-nft",
                               !.code = a.code, !.body = a.body,
                               !.tokenId = a.tokenId,
                               !.providers = verifiedProviders,
                               !.tx = TRUE]
            ELSE /\ resp' = [NoRequest EXCEPT
                               !.op = "mint-social-proof-nft",
                               !.code = c.code, !.body = c.body,
                               !.providers = verifiedProviders]
                 /\ UNCHANGED << tokenIdCounter, owners, socialProofs,
                                 holderTokens, hasMinted, supportedProviders,
                                 reclaimAddress, last >>
         /\ UNCHANGED << verificationSessions, verificationProofs, clock,
                         credentials, chainEnv, callbacks,
                         blockTime, wizardVars >>

\* Raw proofs a /prepare-onchain-mint request may carry: complete, empty,
\* with every property present but falsy, with one property left out or
\* falsy, and null.
FullProof ==
    [type |-> "object",
     provider |-> JsString("github"), parameters |-> JsString("{}"),
     context |-> JsString("ctx"), identifier |-> JsString("0xab"),
     owner |-> JsString(Mallory), timestampS |-> JsNumber(7),
     epoch |-> JsNumber(2), signatures |-> JsArray(<< "0x51" >>)]

BareProof ==
    [f \in ProofFields \cup {"type"} |->
       IF f = "type" THEN "object" ELSE JsUndefined]

FalsyOf(f) ==
    IF f \in {"timestampS", "epoch"} THEN JsNumber(0)
    ELSE IF f = "signatures" THEN JsArray(<<>>)
    ELSE JsString("")

FalsyProof ==
    [f \in ProofFields \cup {"type"} |->
       IF f = "type" THEN "object" ELSE FalsyOf(f)]

BaseProofs == {FullProof, BareProof, FalsyProof, JsNull}

VariantProofs ==
    { [FullProof EXCEPT ![f] = JsUndefined] : f \in ProofFields }
      \cup { [FullProof EXCEPT ![f] = FalsyOf(f)] : f \in ProofFields }

\* Values of reclaimProofs: up to MaxRawProofs of the base proofs, or one of
\* the variants.
RawProofLists ==
    UNION { [1 .. n -> BaseProofs] : n \in 0 .. MaxRawProofs }
      \cup { << p >> : p \in VariantProofs }

\* Date.now() of a /prepare-onchain-mint request.
PrepareTimes == {1999, 2000}

ReqPrepareOnchainMint ==
    \E walletAddress \in {Alice, NoWallet},
       reclaimProofs \in
         { JsArray(l) : l \in RawProofLists } \cup {JsUndefined},
       verifiedProviders \in {JsUndefined, JsArray(<< "github" >>)},
       networkUp \in BOOLEAN, now \in PrepareTimes :
      LET r == PrepareOnchainMint(walletAddress, reclaimProofs,
                                  verifiedProviders, networkUp, now)
      IN /\ resp' = [NoRequest EXCEPT
                       !.op = "prepare-onchain-mint",
                       !.code = r.code, !.body = r.body,
                       !.request = [walletAddress |-> walletAddress,
                                    reclaimProofs |-> reclaimProofs,
                                    verifiedProviders |-> verifiedProviders,
                                    networkUp |-> networkUp, now |-> now],
                       !.transformedProofs = r.transformedProofs]
         /\ UNCHANGED << verificationSessions, verificationProofs, clock,
                         credentials, chainEnv, callbacks,
                         registryVars, wizardVars >>

\* A millisecond passes.
Tick ==
    /\ clock < MaxTime
    /\ clock' = clock + 1
    /\ UNCHANGED << verificationSessions, verificationProofs, credentials,
                    chainEnv, resp, callbacks, registryVars,
                    wizardVars >>

(***************************************************************************)
(* The verification wizard (App.jsx).  One browser page; each provider     *)
(* card has the state verificationStates[p] and, once startVerification    *)
(* ran, a poll interval and a timeout timer.  A fetch is modelled together *)
(* with the backend handler that serves it.                                *)
(***************************************************************************)
WizardProviders == {"github"}

\* The cards of the page that the specifications follow; SpecWizard drives
\* the first of them only.
PageProviders == {"github", "gmail"}

\* verificationStates[p] is undefined until a verification is started.
Undefined == "undefined"

\* No startVerification(p) is running: no request, interval or timer.
\* phase: "idle", "fetching" (generate-config in flight), "polling" (the
\* interval is set), "stopped" (the interval was cleared).
\* timer: "unset", "armed", "fired".  captured: verificationStates[p] of
\* the render whose handler called startVerification.  elapsed: poll periods
\* since the timers were set.  polls: status requests the interval callback
\* has sent.  lastPoll: how the latest of them ended -- "none" before the
\* first, "error" when the fetch or response.json() threw, else the status
\* received.
NoVerification ==
    [phase |-> "idle", timer |-> "unset", captured |-> Undefined,
     elapsed |-> 0, polls |-> 0, lastPoll |-> "none"]

\* pageProofs[p] of a provider without entry.
UnsetProof == [origin |-> << "undefined", 0 >>, valid |-> FALSE]

\* mintNFT has not run.  request: the backend route it called ("none" when
\* it returned before any fetch); verifiedProviders: the list it computed;
\* called: whether it called mintWithProofVerification on the registry, and
\* with which proof array; error, nftMinted: the state it set.
NoMint ==
    [request |-> "none", verifiedProviders |-> <<>>, called |-> FALSE,
     transformedProofs |-> <<>>, error |-> "", nftMinted |-> FALSE]

WizardInit ==
    /\ verificationStates = [p \in PageProviders |-> Undefined]
    /\ verifications = [p \in PageProviders |-> NoVerification]
    /\ pageWallet = NoWallet
    /\ verificationMode = "offchain"
    /\ pageProofs = [p \in PageProviders |-> UnsetProof]
    /\ pageReclaimProofs = [p \in PageProviders |-> JsUndefined]
    /\ minting = NoMint

\* The timeout callback: the state of the card after it ran.
TimeoutState(current, captured) ==
    IF captured = "loading" THEN "timeout" ELSE current

\* Variant of PolledState in which a poll that threw marks the card failed.
PolledState_FailsOnError(current, status) ==
    IF status = "verified" THEN "verified"
    ELSE IF status \in {"failed", "error"} THEN "failed"
    ELSE current

\* The interval callback: the state of the card after a poll that got
\* `status` from /verification-status.
PolledState(current, status) ==
    IF status = "verified" THEN "verified"
    ELSE IF status = "failed" THEN "failed"
    ELSE current

\* Variant of PolledPhase in which a caught error clears the interval.
PolledPhase_StopsOnError(phase, outcome) ==
    IF outcome \in {"verified", "failed", "error"} THEN "stopped" ELSE phase

\* The interval callback: the interval after a poll that ended with
\* `outcome`; clearInterval runs in the verified and failed branches only.
PolledPhase(phase, outcome) ==
    IF outcome \in {"verified", "failed"} THEN "stopped" ELSE phase

\* Variant of TimeoutPhase that leaves the interval running.
TimeoutPhase_KeepsPolling(phase) == phase

\* The timeout callback: clearInterval(pollInterval).
TimeoutPhase(phase) == "stopped"

\* A click on Start Verification (card without state) or Retry Verification
\* (card failed or timed out): startVerification up to its first await.
StartVerification(providers) ==
    \E p \in providers :
      /\ verificationStates[p] \in {Undefined, "failed", "timeout"}
      /\ verificationStates' = [verificationStates EXCEPT ![p] = "loading"]
      /\ verifications' =
           [verifications EXCEPT
              ![p] = [phase |-> "fetching", timer |-> "unset",
                      captured |-> verificationStates[p], elapsed |-> 0,
                      polls |-> 0, lastPoll |-> "none"]]
      /\ UNCHANGED << registryVars, relayVars, pageVars >>

\* The backend serves /generate-config and startVerification resumes: on a
\* 200 it sets the interval and the timer, otherwise the catch block marks
\* the card failed.
ConfigFetched(providers, delays) ==
    \E p \in providers, oracleUp \in BOOLEAN, d \in delays :
      LET r == GenerateConfig(Store, credentials, p, pageWallet,
                              oracleUp, clock, clock + d)
      IN /\ verifications[p].phase = "fetching"
         /\ clock + d <= MaxTime
         /\ Len(r.store.sessions) <= MaxSessions
         /\ verificationSessions' = r.store.sessions
         /\ verificationProofs' = r.store.proofs
         /\ clock' = clock + d
         /\ resp' = [NoRequest EXCEPT !.op = "generate-config",
                                      !.provider = p,
                                      !.code = r.code, !.body = r.body]
         /\ IF r.code = 200
            THEN /\ verifications' =
                      [verifications EXCEPT ![p].phase = "polling",
                                            ![p].timer = "armed"]
                 /\ UNCHANGED verificationStates
            ELSE /\ verifications' =
                      [verifications EXCEPT ![p].phase = "idle"]
                 /\ verificationStates' =
                      [verificationStates EXCEPT ![p] = "failed"]
         /\ UNCHANGED << credentials, chainEnv, callbacks,
                         registryVars, pageVars >>

\* One poll period passes for provider p.  While the interval is set its
\* callback fetches /verification-status; a fetch or response.json() that
\* throws is caught and logged.  Periods are followed until the timer fires
\* and for PollsAfterTimeout more.
PollTick(providers, reachability) ==
    \E p \in providers, reachable \in reachability :
      LET statusData == VerificationStatus(Store, p)
          status == statusData.status
          polls == verifications[p].phase = "polling"
          outcome == IF reachable THEN status ELSE "error"
          next == IF polls THEN PolledState(verificationStates[p], outcome)
                  ELSE verificationStates[p]
      IN /\ \/ /\ verifications[p].timer = "armed"
               /\ verifications[p].elapsed < PollsPerTimeout
            \/ /\ verifications[p].timer = "fired"
               /\ verifications[p].elapsed
                    < PollsPerTimeout + PollsAfterTimeout
         /\ verificationStates' = [verificationStates EXCEPT ![p] = next]
         /\ verifications' =
              [verifications EXCEPT
                 ![p].elapsed = @ + 1,
                 ![p].polls = IF polls THEN @ + 1 ELSE @,
                 ![p].lastPoll = IF polls THEN outcome ELSE @,
                 ![p].phase = IF polls THEN PolledPhase(@, outcome) ELSE @]
         /\ resp' = IF polls /\ reachable
                    THEN [NoRequest EXCEPT
                            !.op = "verification-status", !.provider = p,
                            !.code = 200, !.body = status]
                    ELSE resp
         /\ pageProofs' = IF polls /\ outcome = "verified"
                      THEN [pageProofs EXCEPT ![p] = statusData.proof]
                      ELSE pageProofs
         /\ pageReclaimProofs' =
              IF polls /\ outcome = "verified"
                       /\ Truthy(ReclaimProofOf(statusData))
              THEN [pageReclaimProofs EXCEPT
                      ![p] = ReclaimProofOf(statusData)]
              ELSE pageReclaimProofs
         /\ UNCHANGED << verificationSessions, verificationProofs, clock,
                         credentials, chainEnv, callbacks,
                         registryVars, pageWallet, verificationMode,
                         minting >>

\* The 5 minute timer of provider p fires.
PollTimeout(providers) ==
    \E p \in providers :
      /\ verifications[p].timer = "armed"
      /\ verifications[p].elapsed = PollsPerTimeout
      /\ verifications' =
           [verifications EXCEPT ![p].phase = TimeoutPhase(@),
                                 ![p].timer = "fired"]
      /\ verificationStates' =
           [verificationStates EXCEPT
              ![p] = TimeoutState(@, verifications[p].captured)]
      /\ UNCHANGED << registryVars, relayVars, pageVars >>

\* The page is reloaded: the component state starts over and the timers of
\* the old page are gone.  The backend keeps its sessions.
Reload ==
    /\ verificationStates # [p \in PageProviders |-> Undefined]
    /\ verificationStates' = [p \in PageProviders |-> Undefined]
    /\ verifications' = [p \in PageProviders |-> NoVerification]
    /\ pageWallet' = NoWallet
    /\ verificationMode' = "offchain"
    /\ pageProofs' = [p \in PageProviders |-> UnsetProof]
    /\ pageReclaimProofs' = [p \in PageProviders |-> JsUndefined]
    /\ minting' = NoMint
    /\ UNCHANGED << registryVars, relayVars >>

\* connectWallet: the wallet hands out its first account.
ConnectWallet ==
    /\ pageWallet = NoWallet
    /\ pageWallet' = Alice
    /\ UNCHANGED << registryVars, relayVars, verificationStates,
                    verifications, verificationMode, pageProofs,
                    pageReclaimProofs,
                    minting >>

\* The mode buttons, rendered once a wallet is connected.
SetVerificationMode ==
    \E mode \in {"offchain", "onchain"} :
      /\ pageWallet # NoWallet
      /\ verificationMode # mode
      /\ verificationMode' = mode
      /\ UNCHANGED << registryVars, relayVars, verificationStates,
                      verifications, pageWallet, pageProofs,
                      pageReclaimProofs, minting >>

\* Object.keys(verificationStates).filter(key => ... === 'verified'), as a
\* set.
VerifiedKeys(states) == { p \in DOMAIN states : states[p] = "verified" }

\* The keys of an object that have a value.
OwnKeys(obj) == { p \in DOMAIN obj : obj[p] # JsUndefined }

\* The lists that name every element of S once.  Object.keys and
\* Object.values follow the order in which the keys were inserted, which
\* the page state does not record: every order is considered.
KeyOrders(S) ==
    { l \in [1 .. Cardinality(S) -> S] :
        \A i, j \in 1 .. Cardinality(S) : l[i] = l[j] => i = j }

\* Variant of MintNFTCheck without the wallet check.
MintNFTCheck_NoWalletCheck(wallet, verifiedProviders) ==
    IF Len(verifiedProviders) = 0
    THEN "Please verify at least one provider before minting"
    ELSE ""

\* The two early returns of mintNFT: the error it sets, "" when it goes on.
\* The provider list is computed after the wallet check.
MintNFTCheck(wallet, verifiedProviders) ==
    IF wallet = NoWallet
    THEN "Please connect your wallet first"
    ELSE IF Len(verifiedProviders) = 0
    THEN "Please verify at least one provider before minting"
    ELSE ""

\* A transformed proof as the registry's oracle sees it: issued to the
\* claim's owner, and accepted only when it carries witness signatures.
OnchainProof(tp) ==
    [owner |-> tp.signedClaim.claim.owner.val,
     valid |-> tp.signedClaim.signatures.val # <<>>]

\* mintNFT in off-chain mode: POST /mint-social-proof-nft and the handler
\* that serves it, which mints through the registry's owner.
MintOffchain(verifiedProviders, decodes) ==
    LET c == MintRequestCheck(chainEnv, pageWallet, TRUE, verifiedProviders)
        r == MintSocialProofPass(Storage, ContractOwner, pageWallet,
                                 verifiedProviders, HookAccept, blockTime)
        a == MintReply(r, ReceiptLogs(Storage, r, HookAccept), decodes)
    IN IF c.body = "tx"
       THEN /\ Commit(r)
            /\ last' = [op |-> "mintSocialProofPass", to |-> pageWallet,
                        err |-> r.err, ret |-> r.ret, badAt |-> 0]
            /\ resp' = [NoRequest EXCEPT
                          !.op = "mint-social-proof-nft",
                          !.code = a.code, !.body = a.body,
                          !.tokenId = a.tokenId,
                          !.providers = verifiedProviders, !.tx = TRUE]
            /\ minting' = [NoMint EXCEPT
                             !.request = "mint-social-proof-nft",
                             !.verifiedProviders = verifiedProviders,
                             !.error = IF a.code = 200 THEN "" ELSE a.body,
                             !.nftMinted = (a.code = 200)]
       ELSE /\ resp' = [NoRequest EXCEPT
                          !.op = "mint-social-proof-nft",
                          !.code = c.code, !.body = c.body,
                          !.providers = verifiedProviders]
            /\ minting' = [NoMint EXCEPT
                             !.request = "mint-social-proof-nft",
                             !.verifiedProviders = verifiedProviders,
                             !.error = c.body]
            /\ UNCHANGED << tokenIdCounter, owners, socialProofs,
                            holderTokens, hasMinted, supportedProviders,
                            reclaimAddress, last >>

\* mintNFT in on-chain mode: POST /prepare-onchain-mint with reclaimProofs,
\* then mintWithProofVerification(transformedProofs, verifiedProviders)
\* from the connected account.  Without a transformedProofs array in the
\* answer the contract call throws before anything is sent.
MintOnchain(verifiedProviders, rawProofs, networkUp) ==
    LET request == [walletAddress |-> pageWallet,
                    reclaimProofs |-> JsArray(rawProofs),
                    verifiedProviders |-> JsArray(verifiedProviders),
                    networkUp |-> networkUp, now |-> clock]
        q == PrepareOnchainMint(pageWallet, JsArray(rawProofs),
                                JsArray(verifiedProviders), networkUp, clock)
        onchain == [i \in 1 .. Len(q.transformedProofs) |->
                      OnchainProof(q.transformedProofs[i])]
        r == MintWithProofVerification(Storage, pageWallet, onchain,
                                       verifiedProviders, HookAccept,
                                       blockTime)
    IN /\ resp' = [NoRequest EXCEPT
                     !.op = "prepare-onchain-mint",
                     !.code = q.code, !.body = q.body,
                     !.request = request,
                     !.transformedProofs = q.transformedProofs]
       /\ IF q.code = 200
          THEN /\ Commit(r)
               /\ last' = [op |-> "mintWithProofVerification",
                           to |-> pageWallet, err |-> r.err, ret |-> r.ret,
                           badAt |-> RejectedAt(Storage, onchain)]
               /\ minting' = [NoMint EXCEPT
                                !.request = "prepare-onchain-mint",
                                !.verifiedProviders = verifiedProviders,
                                !.called = TRUE,
                                !.transformedProofs = q.transformedProofs,
                                !.error = IF r.ok THEN ""
                                          ELSE "Minting failed",
                                !.nftMinted = r.ok]
          ELSE /\ minting' = [NoMint EXCEPT
                                !.request = "prepare-onchain-mint",
                                !.verifiedProviders = verifiedProviders,
                                !.error = "Minting failed"]
               /\ UNCHANGED << tokenIdCounter, owners, socialProofs,
                               holderTokens, hasMinted, supportedProviders,
                               reclaimAddress, last >>

\* mintNFT, whole: its guards, the request of the selected mode and the
\* handler or contract call behind it.  It is followed from every state of
\* the page in which no pass was minted, also those in which the button is
\* disabled.
MintNFT ==
    \E verifiedProviders \in KeyOrders(VerifiedKeys(verificationStates)),
       values \in KeyOrders(OwnKeys(pageReclaimProofs)),
       networkUp \in BOOLEAN, decodes \in BOOLEAN :
      LET check == MintNFTCheck(pageWallet, verifiedProviders)
          rawProofs == [i \in 1 .. Len(values) |->
                          pageReclaimProofs[values[i]]]
      IN /\ ~minting.nftMinted
         /\ IF check # ""
            THEN /\ minting' = [NoMint EXCEPT !.error = check]
                 /\ UNCHANGED << tokenIdCounter, owners, socialProofs,
                                 holderTokens, hasMinted,
                                 supportedProviders, reclaimAddress, last,
                                 resp >>
            ELSE IF verificationMode = "offchain"
            THEN MintOffchain(verifiedProviders, decodes)
            ELSE MintOnchain(verifiedProviders, rawProofs, networkUp)
         /\ UNCHANGED << verificationSessions, verificationProofs, clock,
                         credentials, chainEnv, callbacks, blockTime,
                         verificationStates, verifications, pageWallet,
                         verificationMode, pageProofs, pageReclaimProofs >>

Init == RegistryInit /\ RelayIdle /\ WizardInit

Next ==
    \/ TxMintSocialProofPass
    \/ TxMintWithProofVerification
    \/ TxAddProvidersWithVerification
    \/ MineBlock

Spec == Init /\ [][Next]_vars

AdminNext ==
    \/ CallMintSocialProofPass
    \/ CallMintWithProofVerification
    \/ CallAddProvidersWithVerification
    \/ CallAddVerifiedProviders
    \/ CallAddSupportedProvider
    \/ CallRemoveSupportedProvider
    \/ CallUpdateReclaimAddress
    \/ CallTransferFrom

SpecAdmin == Init /\ [][AdminNext]_vars

RelayStart ==
    /\ RegistryInit
    /\ RelayInit(CredentialConfigs, {ChainReady})
    /\ WizardInit

RelayNext ==
    \/ ReqGenerateConfig({Alice})
    \/ ReqReceiveProofs(RequestProviders, BOOLEAN)
    \/ ReqVerificationStatus
    \/ Tick

SpecRelay == RelayStart /\ [][RelayNext]_vars

MintNext ==
    \/ ReqReceiveProofs(RequestProviders, BOOLEAN)
    \/ ReqMintSocialProofNft

ConfigStart ==
    /\ RegistryInit
    /\ RelayInit({AllSet} \cup BrokenConfigs, {ChainReady})
    /\ WizardInit

ConfigNext ==
    \/ ReqGenerateConfig(Wallets)
    \/ Tick

SpecConfig == ConfigStart /\ [][ConfigNext]_vars

MintStart == RegistryInit /\ RelayInit({AllSet}, ChainConfigs) /\ WizardInit

SpecMint == MintStart /\ [][MintNext]_vars

PrepareNext == ReqPrepareOnchainMint

SpecPrepare == Init /\ [][PrepareNext]_vars

CallbackProviders == {"github", "discord"}

CallbackNext ==
    \/ ReqGenerateConfig({Alice})
    \/ CallbackArrives(CallbackProviders)
    \/ CallbackResumes
    \/ Tick

SpecCallbacks == Init /\ [][CallbackNext]_vars

\* The page with both cards started; the polls and the oracle's callbacks
\* are followed for the first card, so that the second is seen loading or
\* failed next to a first card in every state.
PageNext ==
    \/ ConnectWallet
    \/ SetVerificationMode
    \/ StartVerification(PageProviders)
    \/ ConfigFetched(PageProviders, {0})
    \/ PollTick(WizardProviders, {TRUE})
    \/ ReqReceiveProofs(WizardProviders, {TRUE})
    \/ MintNFT

SpecPage == Init /\ [][PageNext]_vars

\* Alice's page next to another user, Mallory, whose page and phone reach
\* the same backend: her /generate-config requests and the oracle's
\* callbacks for either of them.
SharedNext ==
    \/ ConnectWallet
    \/ StartVerification(WizardProviders)
    \/ ConfigFetched(WizardProviders, {0, 1})
    \/ PollTick(WizardProviders, {TRUE})
    \/ ReqGenerateConfig({Mallory})
    \/ ReqReceiveProofs(WizardProviders, {TRUE})

SpecShared == Init /\ [][SharedNext]_vars

WizardNext ==
    \/ StartVerification(WizardProviders)
    \/ ConfigFetched(WizardProviders, {0, 1})
    \/ PollTick(WizardProviders, BOOLEAN)
    \/ PollTimeout(WizardProviders)
    \/ Reload
    \/ ReqReceiveProofs(WizardProviders, BOOLEAN)

SpecWizard == Init /\ [][WizardNext]_vars

(***************************************************************************)
(* Claims about the registry (specification Spec).                         *)
(***************************************************************************)

\* Inputs of a mintSocialProofPass call that the mint bound lets through.
MintInputs ==
    { c \in [sender : {ContractOwner, Alice}, to : {Alice, Mallory},
             providers : MintLists, hook : Hooks] :
        c.to \in ContractAccounts \/ c.hook = HookAccept }

\* C1: at most one mint per address -- every address has at most one token
\* id in holderTokens and is the holder of at most one SocialProof, also when
\* a mint is entered again from the recipient's token-receipt hook.
C1_AtMostOneMintPerAddress ==
    \A a \in Accounts :
      /\ Len(holderTokens[a]) <= 1
      /\ Cardinality({ t \in TokenIds : socialProofs[t].holder = a }) <= 1

\* C2 (as stated): right after a successful mintSocialProofPass(to, ..),
\* every mintSocialProofPass call for the same `to` fails with the message
\* "Already minted".
C2_Original ==
    \A c \in MintInputs :
      (last.op = "mintSocialProofPass" /\ last.err = "" /\ last.to = c.to)
        => MintSocialProofPass(Storage, c.sender, c.to, c.providers, c.hook,
                               blockTime).err = "Already minted"

C2_State ==
    /\ \A a \in Accounts :
         (last.op = "mintSocialProofPass" /\ last.err = "" /\ last.to = a)
           => HasAlreadyMinted(Storage, a)
    /\ \A c \in MintInputs :
         HasAlreadyMinted(Storage, c.to) =>
           LET r == MintSocialProofPass(Storage, c.sender, c.to, c.providers,
                                        c.hook, blockTime)
           IN /\ ~r.ok
              /\ r.st = Storage
              /\ (c.sender = ContractOwner /\ c.providers # <<>>)
                   => r.err = "Already minted"

C2_Step ==
    \A a \in Accounts :
      HasAlreadyMinted(Storage, a) => hasMinted'[a]

\* C2 (amended): after a successful mintSocialProofPass(to, ..),
\* hasAlreadyMinted(to) is true and stays true, and every later
\* mintSocialProofPass call for the same `to` fails and mints no token; the
\* failure is "Already minted" when the caller is the owner and the provider
\* list is not empty (the owner check and the empty-list check come first).
C2_SecondMintFails == [](C2_State) /\ [][C2_Step]_vars

C2_Witness ==
    /\ last.op = "mintSocialProofPass"
    /\ last.err = "Already minted"
    /\ HasAlreadyMinted(Storage, last.to)

\* C3: for every stored SocialProof, verificationCount equals the length of
\* verifiedProviders (also for a list of more than 255 entries).
C3_CountEqualsLength ==
    \A t \in TokenIds :
      socialProofs[t].verificationCount
        = Len(socialProofs[t].verifiedProviders)

\* C4: mintWithProofVerification is atomic -- when the oracle rejects a proof
\* of the batch, at whatever position, the call reverts and the storage
\* (token counter, owners, hasMinted, socialProofs) is what it was.
C4_MintWithProofAtomic ==
    /\ \A sender \in {Alice, Mallory}, proofs \in ProofLists,
          providers \in MintLists \ {LongList}, hook \in Hooks :
         RejectedAt(Storage, proofs) # 0 =>
           LET r == MintWithProofVerification(Storage, sender, proofs,
                                              providers, hook, blockTime)
           IN ~r.ok /\ r.st = Storage
    /\ (last.op = "mintWithProofVerification" /\ last.badAt # 0)
         => last.err # "" /\ last.ret = NoToken

C4_Witness ==
    /\ last.op = "mintWithProofVerification"
    /\ last.badAt = 2
    /\ last.err = "Reclaim: proof rejected"
    /\ ~hasMinted[last.to]
    /\ tokenIdCounter = 1

(***************************************************************************)
(* Claims about the backend (specifications SpecMint and SpecRelay).       *)
(***************************************************************************)

\* C5: every provider that POST /mint-social-proof-nft passes to the
\* registry's owner-gated mint is one for which the backend holds an accepted
\* proof; a request naming a provider the backend never verified leads to no
\* mint transaction.
C5_MintOnlyVerifiedProviders ==
    resp.tx =>
      \A i \in 1 .. Len(resp.providers) :
        \E j \in 1 .. Len(verificationProofs) :
          verificationProofs[j].provider = resp.providers[i]

\* Indices of the sessions of `provider` that are pending.
PendingOf(sessions, provider) ==
    { i \in 1 .. Len(sessions) :
        sessions[i].provider = provider /\ sessions[i].status = "pending" }

\* Indices at which two session maps of equal length differ.
Changed(before, after) ==
    { i \in 1 .. Len(before) : before[i] # after[i] }

\* C6: a successful receiveCallback(provider) promotes exactly one session:
\* when a session of that provider is pending, exactly one such session goes
\* from pending to verified and every other session is unchanged; with none
\* pending no session changes; a session of another provider never changes.
C6_PromotesExactlyOne ==
    \A provider \in RequestProviders : \A body \in Bodies(provider) :
      LET r == ReceiveProofs(Store, provider, body, clock)
          after == r.store.sessions
          diff == Changed(verificationSessions, after)
      IN r.code = 200 =>
           /\ Len(after) = Len(verificationSessions)
           /\ diff \subseteq PendingOf(verificationSessions, provider)
           /\ \A i \in diff :
                /\ after[i].status = "verified"
                /\ after[i].id = verificationSessions[i].id
                /\ after[i].provider = provider
           /\ PendingOf(verificationSessions, provider) # {}
                => Cardinality(diff) = 1
           /\ PendingOf(verificationSessions, provider) = {} => diff = {}

C6_Witness ==
    /\ resp.op = "receive-proofs"
    /\ resp.code = 200
    /\ \E i, j \in 1 .. Len(verificationSessions) :
         /\ verificationSessions[i].provider = resp.provider
         /\ verificationSessions[j].provider = resp.provider
         /\ verificationSessions[i].status = "verified"
         /\ verificationSessions[j].status = "pending"

\* C7: with several sessions of a provider pending, the session a successful
\* receiveCallback promotes is the pending one with the largest createdAt.
C7_PromotesMostRecent ==
    \A provider \in RequestProviders : \A body \in Bodies(provider) :
      LET r == ReceiveProofs(Store, provider, body, clock)
          diff == Changed(verificationSessions, r.store.sessions)
      IN r.code = 200 =>
           \A i \in diff :
             \A j \in PendingOf(verificationSessions, provider) :
               verificationSessions[j].createdAt
                 <= verificationSessions[i].createdAt

C8_State ==
    \A provider \in RequestProviders :
      LET q == VerificationStatus(Store, provider)
          mine == { i \in 1 .. Len(verificationSessions) :
                      verificationSessions[i].provider = provider }
      IN IF mine = {}
         THEN q.status = "not_found"
         ELSE \E i \in mine :
                /\ q.sessionId = verificationSessions[i].id
                /\ q.status = verificationSessions[i].status
                /\ q.proof = verificationSessions[i].proof
                /\ \A j \in mine :
                     verificationSessions[j].createdAt
                       <= verificationSessions[i].createdAt

C8_Step ==
    (resp'.op = "verification-status" /\ resp' # resp)
      => /\ verificationSessions' = verificationSessions
         /\ verificationProofs' = verificationProofs
         /\ resp'.body = VerificationStatus(Store, resp'.provider).status

\* C8: queryStatus(provider) answers with the status, id and proof of the
\* session with the largest createdAt among the sessions of that provider,
\* answers not_found when there is none, and changes neither map.
C8_QueryReturnsLatest == [](C8_State) /\ [][C8_Step]_vars

C8_Witness ==
    /\ resp.op = "verification-status"
    /\ resp.body = "pending"
    /\ \E i, j \in 1 .. Len(verificationSessions) :
         /\ verificationSessions[i].provider = resp.provider
         /\ verificationSessions[j].provider = resp.provider
         /\ verificationSessions[i].status = "verified"
         /\ verificationSessions[i].createdAt
              < verificationSessions[j].createdAt

(***************************************************************************)
(* Claims about the wizard (specification SpecWizard).                     *)
(***************************************************************************)

\* C9: whenever a valid callback for provider p is accepted while the wizard
\* is polling p, the next queryStatus(p) reports verified (so the poll sets
\* the card to verified), also when an earlier session of p is still pending.
C9_PollObservesTransition ==
    \A p \in WizardProviders : \A body \in Bodies(p) :
      LET r == ReceiveProofs(Store, p, body, clock)
      IN (r.code = 200 /\ verifications[p].phase = "polling")
           => VerificationStatus(r.store, p).status = "verified"

\* C10: once the 5 minute timer of a started verification has fired, the
\* card is no longer loading (it timed out unless it was verified or failed
\* before) and its interval is cleared.
C10_LoadingTimesOut ==
    \A p \in WizardProviders :
      verifications[p].timer = "fired"
        => /\ verificationStates[p] # "loading"
           /\ verifications[p].phase = "stopped"

(***************************************************************************)
(* Claims about the backend's error handling (SpecRelay, SpecConfig).      *)
(***************************************************************************)

\* C11: for every provider name that is not one of the configured providers,
\* /generate-config answers 400 'Invalid provider' and leaves the session
\* store as it was.
C11_UnknownProviderRejected ==
    /\ (resp.op = "generate-config" /\ resp.provider \notin ProviderKeys)
         => (resp.code = 400 /\ resp.body = "Invalid provider")
    /\ \A provider \in RequestProviders \ ProviderKeys,
          oracleUp \in BOOLEAN :
         GenerateConfig(Store, credentials, provider, Alice, oracleUp,
                        clock, clock).store = Store

\* C12: for a supported provider with any of its three credentials absent
\* or a placeholder, /generate-config answers 500 'Provider not configured'
\* without calling the oracle SDK and without touching the session store;
\* whenever the session store changes, the oracle was called and answered.
C12_MisconfiguredRejected ==
    \A provider \in ProviderKeys, address \in Wallets,
       oracleUp \in BOOLEAN, d \in {0, 1} :
      LET r == GenerateConfig(Store, credentials, provider, address,
                              oracleUp, clock, clock + d)
      IN /\ (\E f \in CredentialFields :
               credentials[provider][f] \in {Absent, Placeholder})
              => /\ r.code = 500
                 /\ r.body = "Provider not configured"
                 /\ ~r.oracle
                 /\ r.store = Store
         /\ r.store.sessions # verificationSessions
              => (r.oracle /\ oracleUp /\ r.code = 200)

C12_Witness ==
    /\ resp.op = "generate-config"
    /\ resp.provider = "gmail"
    /\ resp.body = "Provider not configured"
    /\ credentials["gmail"]["APP_ID"] = Present
    /\ \E i \in 1 .. Len(verificationSessions) :
         verificationSessions[i].provider = "github"

\* C13: a callback for an unsupported provider, with a body that does not
\* decode, or with a proof the oracle rejects fails and leaves the session
\* and proof stores exactly as they were.
C13_FailedCallbackStoresNothing ==
    \A provider \in RequestProviders : \A body \in Bodies(provider) :
      LET r == ReceiveProofs(Store, provider, body, clock)
      IN (provider \notin ProviderKeys \/ body = Garbage \/ ~body.valid)
           => (r.code # 200 /\ r.store = Store)

(***************************************************************************)
(* Claims about the registry's getters, failure cases and append rules     *)
(* (specifications Spec and SpecAdmin).                                    *)
(***************************************************************************)

\* C14: round trip -- right after a successful mint, getSocialProof of the
\* new token returns the recipient as holder, the provider list passed to
\* the mint (same entries, same order), the block's timestamp and
\* verified = true.
C14_MintRoundTrip ==
    /\ \A c \in MintInputs :
         LET r == MintSocialProofPass(Storage, c.sender, c.to, c.providers,
                                      c.hook, blockTime)
             g == GetSocialProof(r.st, r.ret)
         IN r.ok => /\ g.ok
                    /\ g.ret.holder = c.to
                    /\ g.ret.verifiedProviders = c.providers
                    /\ g.ret.timestamp = blockTime
                    /\ g.ret.verified
    /\ \A sender \in {Alice, Mallory}, proofs \in ProofLists,
          providers \in MintLists \ {LongList}, hook \in Hooks :
         LET r == MintWithProofVerification(Storage, sender, proofs,
                                            providers, hook, blockTime)
             g == GetSocialProof(r.st, r.ret)
         IN r.ok => /\ g.ok
                    /\ g.ret.holder = sender
                    /\ g.ret.verifiedProviders = providers
                    /\ g.ret.timestamp = blockTime
                    /\ g.ret.verified

C14_Witness ==
    /\ last.op = "mintSocialProofPass"
    /\ last.err = ""
    /\ last.to = Mallory
    /\ blockTime = 2
    /\ Len(holderTokens[Mallory]) = 2
    /\ GetSocialProof(Storage, last.ret).ret.timestamp = 2
    /\ GetSocialProof(Storage, last.ret).ret.verifiedProviders
         = << "github", "gmail" >>

\* Reads a decimal number back from its digits.
RECURSIVE ParseUint(_)
ParseUint(digits) ==
    IF digits = <<>> THEN 0
    ELSE 10 * ParseUint(SubSeq(digits, 1, Len(digits) - 1))
           + digits[Len(digits)]

\* The value of the attribute named trait in a token URI.
AttributeOf(uri, trait) ==
    LET i == CHOOSE j \in 1 .. Len(uri.attributes) :
               uri.attributes[j].trait_type = trait
    IN uri.attributes[i].value

\* C15: for every minted token the 'Count' attribute of tokenURI is the
\* token's current number of verified providers.
C15_CountAttribute ==
    \A t \in TokenIds :
      Exists(Storage, t) =>
        ParseUint(AttributeOf(TokenURI(Storage, t).ret, "Count"))
          = Len(socialProofs[t].verifiedProviders)

\* C16: mintSocialProofPass fails and leaves the token counter, hasMinted,
\* holderTokens and socialProofs as they were whenever the caller is not the
\* owner, the provider list is empty, or `to` is the zero address.
C16_MintSocialProofPassFails ==
    \A sender \in Accounts, to \in Addresses, providers \in MintLists,
       hook \in Hooks :
      LET r == MintSocialProofPass(Storage, sender, to, providers, hook,
                                   blockTime)
      IN (sender # ContractOwner \/ providers = <<>> \/ to = ZeroAddress)
           => /\ ~r.ok
              /\ r.st.tokenIdCounter = tokenIdCounter
              /\ r.st.hasMinted = hasMinted
              /\ r.st.holderTokens = holderTokens
              /\ r.st.socialProofs = socialProofs

C16_Witness ==
    /\ last.op = "mintSocialProofPass"
    /\ last.to = ZeroAddress
    /\ last.err = "ERC721: mint to the zero address"
    /\ tokenIdCounter = 1
    /\ owners[1] = ZeroAddress

\* C17: mintWithProofVerification, whoever calls it, fails without minting
\* when the two arrays differ in length, the caller has already minted, or
\* a listed provider is not in the supported set at that moment.
C17_MintWithProofFails ==
    \A sender \in Accounts, proofs \in ProofLists,
       providers \in MintLists \ {LongList}, hook \in Hooks :
      LET r == MintWithProofVerification(Storage, sender, proofs, providers,
                                         hook, blockTime)
      IN (\/ Len(proofs) # Len(providers)
          \/ hasMinted[sender]
          \/ \E i \in 1 .. Len(providers) :
               providers[i] \notin supportedProviders)
           => (~r.ok /\ r.st = Storage)

C17_Witness ==
    /\ last.op = "mintWithProofVerification"
    /\ last.err = "Unsupported provider"
    /\ "github" \notin supportedProviders
    /\ ~hasMinted[last.to]
    /\ tokenIdCounter = 1

C18_Step ==
    \A a \in Addresses : hasMinted[a] => hasMinted'[a]

\* C18: once hasMinted[a] is true it stays true through every mint, append,
\* provider-set change, oracle change and transfer.
C18_HasMintedTerminal == [][C18_Step]_vars

C18_Witness ==
    /\ last.op = "transferFrom"
    /\ last.err = ""
    /\ \E t \in TokenIds :
         /\ socialProofs[t].holder = Alice
         /\ owners[t] = Mallory
         /\ hasMinted[Alice]
         /\ ~hasMinted[Mallory]

IsPrefix(a, b) ==
    Len(a) <= Len(b) /\ SubSeq(b, 1, Len(a)) = a

C19_Step ==
    \A t \in TokenIds :
      IsPrefix(socialProofs[t].verifiedProviders,
               socialProofs'[t].verifiedProviders)

\* C19: a token's verifiedProviders list is append-only -- across every
\* transition the old list is a prefix of the new one.
C19_ProvidersAppendOnly == [][C19_Step]_vars

C19_Witness ==
    /\ last.op = "addVerifiedProviders"
    /\ last.err = ""
    /\ socialProofs[0].verifiedProviders = << "github", "gmail", "gmail" >>

\* C20: addVerifiedProviders succeeds only for the contract owner;
\* addProvidersWithVerification succeeds only when the token exists, the
\* caller is its current ERC-721 owner, the arrays are equally long, every
\* new provider is supported and the oracle accepts every new proof; a
\* failed append leaves the storage as it was.
C20_AppendAuthorised ==
    /\ \A sender \in Accounts, tokenId \in 0 .. MaxTokens,
          newProviders \in AppendLists :
         LET r == AddVerifiedProviders(Storage, sender, tokenId,
                                       newProviders)
         IN /\ r.ok => sender = ContractOwner
            /\ ~r.ok => r.st = Storage
    /\ \A sender \in Accounts, tokenId \in 0 .. MaxTokens,
          newProofs \in ProofLists, newProviders \in AppendLists :
         LET r == AddProvidersWithVerification(Storage, sender, tokenId,
                                               newProofs, newProviders,
                                               blockTime)
         IN /\ r.ok =>
                 /\ Exists(Storage, tokenId)
                 /\ owners[tokenId] = sender
                 /\ Len(newProofs) = Len(newProviders)
                 /\ \A i \in 1 .. Len(newProviders) :
                      newProviders[i] \in supportedProviders
                 /\ \A i \in 1 .. Len(newProofs) :
                      OracleAccepts(Storage, newProofs[i])
            /\ ~r.ok => r.st = Storage

C20_Witness ==
    /\ last.op = "addProvidersWithVerification"
    /\ last.err = "Not token owner"
    /\ \E t \in TokenIds :
         /\ socialProofs[t].holder = last.to
         /\ owners[t] # last.to
         /\ owners[t] # ZeroAddress

(***************************************************************************)
(* Claims about the lifetime of sessions and stored proofs (specification  *)
(* SpecRelay).                                                             *)
(***************************************************************************)

C21_Step ==
    \A i \in 1 .. Len(verificationSessions) :
      LET old == verificationSessions[i]
      IN /\ i <= Len(verificationSessions')
         /\ LET new == verificationSessions'[i]
            IN /\ new.id = old.id
               /\ new.provider = old.provider
               /\ new.address = old.address
               /\ new.createdAt = old.createdAt
               /\ old.status = "verified" => new = old
               /\ new.status # old.status =>
                    /\ old.status = "pending"
                    /\ new.status = "verified"
                    /\ resp'.op = "receive-proofs"
                    /\ resp'.code = 200
                    /\ resp'.provider = old.provider

\* C21: sessions are never deleted and their status is monotonic -- across
\* every step a stored session stays in the store with the same provider,
\* wallet address and createdAt; its status changes only from pending to
\* verified, only by a successful callback for its provider, and a verified
\* session never changes again.
C21_SessionsMonotonic == [][C21_Step]_vars

C22_Step ==
    /\ \A i \in 1 .. Len(verificationProofs) :
         /\ i <= Len(verificationProofs')
         /\ verificationProofs'[i] = verificationProofs[i]
    /\ (resp'.op = "receive-proofs" /\ resp'.code = 200
          /\ verificationProofs' # verificationProofs)
         => Len(verificationProofs') = Len(verificationProofs) + 1

\* C22: a StoredProof is immutable after creation -- no step changes or
\* replaces an entry of the proof store, also not a second successful
\* callback for the same provider in the same millisecond, and a successful
\* callback adds one new entry.
C22_StoredProofImmutable == [][C22_Step]_vars

\* C23: session identifiers are not unique keys -- two successful
\* /generate-config requests for the same provider that build their session
\* id in the same millisecond get the same sessionId, and the second write
\* replaces the first record: the store holds one session for the two.
C23_SessionIdCollides ==
    \A provider \in RequestProviders, a1 \in Wallets, a2 \in Wallets,
       d1 \in {0, 1}, d2 \in {0, 1} :
      LET r1 == GenerateConfig(Store, credentials, provider, a1, TRUE,
                               clock, clock + d1)
          r2 == GenerateConfig(r1.store, credentials, provider, a2, TRUE,
                               clock, clock + d2)
          hits == { i \in 1 .. Len(r2.store.sessions) :
                      r2.store.sessions[i].id = r2.sessionId }
      IN (r1.code = 200 /\ r2.code = 200) =>
           /\ r1.sessionId = r2.sessionId
           /\ Len(r2.store.sessions) = Len(r1.store.sessions)
           /\ Cardinality(hits) = 1
           /\ \A i \in hits :
                /\ r2.store.sessions[i].address = a2
                /\ r2.store.sessions[i].createdAt = clock + d2
                /\ r2.store.sessions[i].status = "pending"

\* A proof produced through the request URL of session github-1 is stored,
\* and github-1, the only session, is pending and carries no proof: the
\* session that proof's callback promoted was replaced by a second
\* /generate-config of the same millisecond.
C23_Witness ==
    /\ resp.op = "generate-config"
    /\ resp.code = 200
    /\ Len(verificationSessions) = 1
    /\ verificationSessions[1].id = KeyOf("github", 1)
    /\ verificationSessions[1].status = "pending"
    /\ \E i \in 1 .. Len(verificationProofs) :
         verificationProofs[i].proof.origin = KeyOf("github", 1)

C25_MisconfiguredChainRejected ==
    (/\ resp.op = "mint-social-proof-nft"
     /\ resp.code # 400
     /\ ~(chainEnv.rpc /\ chainEnv.key /\ chainEnv.address))
      => (resp.body = "Server configuration incomplete" /\ ~resp.tx)

(***************************************************************************)
(* Claims about the wizard's polling loop (specification SpecWizard).      *)
(***************************************************************************)

C26_Step ==
    \A p \in WizardProviders :
      LET v == verifications[p]
          w == verifications'[p]
      IN verifications' # [q \in PageProviders |-> NoVerification] =>
           /\ (w.polls = v.polls + 1 /\ w.lastPoll = "error") =>
                /\ w.phase = v.phase
                /\ verificationStates'[p] = verificationStates[p]
           /\ (v.phase = "polling" /\ w.phase # "polling") =>
                /\ w.phase = "stopped"
                /\ \/ /\ w.polls = v.polls + 1
                      /\ w.lastPoll \in {"verified", "failed"}
                   \/ /\ v.timer = "armed"
                      /\ w.timer = "fired"
                      /\ v.elapsed = PollsPerTimeout
           /\ (v.phase = "stopped" \/ v.timer = "fired") =>
                /\ w.polls = v.polls
                /\ w.phase = "stopped"

\* C26: polling is resilient and bounded -- while the page lives, a poll
\* that ends in an error leaves the interval set and the card's state as it
\* was; the interval is cleared only when a poll receives verified or failed
\* or when the five-minute timer fires; once it is cleared or the timer has
\* fired, no further status request is sent.
C26_PollingResilientBounded == [][C26_Step]_vars

C26_Witness ==
    \E p \in WizardProviders :
      /\ verifications[p].timer = "fired"
      /\ verifications[p].elapsed = PollsPerTimeout + PollsAfterTimeout
      /\ verifications[p].polls = PollsPerTimeout
      /\ verifications[p].lastPoll = "error"
      /\ verifications[p].phase = "stopped"

(***************************************************************************)
(* Claims about the registry's administration and holder queries           *)
(* (specification SpecAdmin).                                              *)
(***************************************************************************)

\* Provider names an administrative call may carry.
C27_Providers == {"github", "gmail", "linkedin", "twitter", "discord"}

\* C27: administrative state is owner-gated -- addSupportedProvider,
\* removeSupportedProvider and updateReclaimAddress revert for a caller that
\* is not the owner and leave the supported set and the oracle address as
\* they were; called by the owner, add makes supportedProviders(p) true,
\* remove makes it false and updateReclaimAddress makes getReclaimAddress
\* return the new address.  Before the first call exactly github, gmail,
\* linkedin and twitter are supported.
C27_AdminOwnerGated ==
    /\ \A sender \in Accounts, p \in C27_Providers :
         LET a == AddSupportedProvider(Storage, sender, p)
             d == RemoveSupportedProvider(Storage, sender, p)
         IN IF sender = ContractOwner
            THEN /\ a.ok /\ IsSupportedProvider(a.st, p)
                 /\ d.ok /\ ~IsSupportedProvider(d.st, p)
                 /\ \A q \in C27_Providers \ {p} :
                      /\ IsSupportedProvider(a.st, q)
                           = IsSupportedProvider(Storage, q)
                      /\ IsSupportedProvider(d.st, q)
                           = IsSupportedProvider(Storage, q)
            ELSE /\ ~a.ok /\ a.st = Storage
                 /\ ~d.ok /\ d.st = Storage
    /\ \A sender \in Accounts, new \in {ReclaimSepolia, ReclaimOther} :
         LET u == UpdateReclaimAddress(Storage, sender, new)
         IN IF sender = ContractOwner
            THEN u.ok /\ GetReclaimAddress(u.st) = new
            ELSE ~u.ok /\ u.st = Storage
    /\ last = NoCall =>
         \A p \in C27_Providers :
           IsSupportedProvider(Storage, p)
             = (p \in {"github", "gmail", "linkedin", "twitter"})

C27_Witness ==
    /\ last.op = "addSupportedProvider"
    /\ last.err = "Ownable: caller is not the owner"
    /\ ~IsSupportedProvider(Storage, "github")
    /\ GetReclaimAddress(Storage) = ReclaimOther

\* C28: the holder queries reflect current holdings -- in every reachable
\* state hasAlreadyMinted(a) is true exactly when a owns a token, and
\* getTokensByOwner(a) lists exactly the tokens a owns, also after a token
\* was moved with an ERC-721 transfer.
C28_HolderQueriesCurrent ==
    \A a \in Accounts :
      LET owned == { t \in TokenIds : owners[t] = a }
          listed == { GetTokensByOwner(Storage, a)[i] :
                        i \in 1 .. Len(GetTokensByOwner(Storage, a)) }
      IN /\ HasAlreadyMinted(Storage, a) = (owned # {})
         /\ listed = owned

(***************************************************************************)
(* Claims about /prepare-onchain-mint (specification SpecPrepare).         *)
(***************************************************************************)

\* The property of a transformed proof that is built from property f of
\* the raw proof.
TransformedField(out, f) ==
    CASE f = "provider" -> out.claimInfo.provider
      [] f = "parameters" -> out.claimInfo.parameters
      [] f = "context" -> out.claimInfo.context
      [] f = "identifier" -> out.signedClaim.claim.identifier
      [] f = "owner" -> out.signedClaim.claim.owner
      [] f = "timestampS" -> out.signedClaim.claim.timestampS
      [] f = "epoch" -> out.signedClaim.claim.epoch
      [] f = "signatures" -> out.signedClaim.signatures

\* The default the claim names for property f.
C29_Default(f, walletAddress, now) ==
    CASE f = "identifier" -> JsString(ZeroIdentifier)
      [] f = "owner" -> JsString(walletAddress)
      [] f = "timestampS" -> JsNumber(now \div 1000)
      [] f = "epoch" -> JsNumber(1)
      [] f = "signatures" -> JsArray(<<>>)
      [] OTHER -> JsString("")

\* C29: prepareOnChainPayload is permissive -- a request that carries
\* walletAddress, reclaimProofs and verifiedProviders (the chain being
\* reachable) has no proof rejected and is answered with one transformed
\* proof per raw proof, in order, in which every property present in the raw
\* proof is copied and every missing one takes its default.
C29_PreparePermissive ==
    LET q == resp.request
    IN (/\ resp.op = "prepare-onchain-mint"
        /\ q.walletAddress # NoWallet
        /\ q.reclaimProofs.type # "undefined"
        /\ q.verifiedProviders.type # "undefined"
        /\ q.networkUp)
         => /\ resp.code = 200
            /\ Len(resp.transformedProofs) = Len(q.reclaimProofs.val)
            /\ \A i \in 1 .. Len(q.reclaimProofs.val) :
                 \A f \in ProofFields :
                   TransformedField(resp.transformedProofs[i], f)
                     = IF q.reclaimProofs.val[i][f].type # "undefined"
                       THEN q.reclaimProofs.val[i][f]
                       ELSE C29_Default(f, q.walletAddress, q.now)

(***************************************************************************)
(* Claims about the mint route's answer (specification SpecMint).          *)
(***************************************************************************)

\* C30: a mint whose transaction was confirmed is always answered as a
\* success -- when no log of the receipt parses as the mint event the
\* answer is still the success answer, with tokenId 'unknown'; otherwise
\* tokenId is the id emitted in a SocialProofPassMinted event of the
\* receipt (the id the mint returned when the receipt holds one such event).
C30_ConfirmedMintIsSuccess ==
    \A walletAddress \in Wallets, verifiedProviders \in RequestLists,
       hook \in Hooks, decodes \in BOOLEAN :
      LET r == MintSocialProofPass(Storage, ContractOwner, walletAddress,
                                   verifiedProviders, hook, blockTime)
          logs == ReceiptLogs(Storage, r, hook)
          a == MintReply(r, logs, decodes)
          minted == { i \in 1 .. Len(logs) :
                        logs[i].name = "SocialProofPassMinted" }
      IN r.ok =>
           /\ a.code = 200
           /\ a.body = "success"
           /\ IF decodes /\ minted # {}
              THEN /\ a.tokenId.known
                   /\ \E i \in minted :
                        ParseUint(a.tokenId.digits) = logs[i].tokenId
                   /\ Cardinality(minted) = 1 =>
                        ParseUint(a.tokenId.digits) = r.ret
              ELSE a.tokenId = UnknownTokenId

C30_Witness ==
    /\ resp.op = "mint-social-proof-nft"
    /\ resp.tx
    /\ last.op = "mintSocialProofPass"
    /\ last.err = ""
    /\ resp.code = 200
    /\ resp.body = "success"
    /\ resp.tokenId = UnknownTokenId

(***************************************************************************)
(* Claims about session statuses (specification SpecWizard).               *)
(***************************************************************************)

\* Every session of the store is pending or verified, and the status route
\* answers pending, verified or not_found for every provider name.
C37_State ==
    /\ \A i \in 1 .. Len(verificationSessions) :
         verificationSessions[i].status \in {"pending", "verified"}
    /\ \A provider \in RequestProviders :
         VerificationStatus(Store, provider).status
           \in {"pending", "verified", "not_found"}

\* A card turns failed only in the step in which its configuration request
\* came back with an error.
C37_Step ==
    \A p \in WizardProviders :
      (verificationStates'[p] = "failed" /\ verificationStates[p] # "failed")
        => /\ verifications[p].phase = "fetching"
           /\ resp'.op = "generate-config"
           /\ resp'.provider = p
           /\ resp'.code # 200

\* C37: the backend never produces a failed session: a session is pending
\* or verified, the status route answers only pending, verified or
\* not_found, and a card of the wizard reaches 'failed' only through an
\* error of the configuration request, never through polling.
C37_NoFailedSession == []C37_State /\ [][C37_Step]_vars

\* A retried card failed again on its configuration request while the
\* provider has a verified session in the store.
C37_Witness ==
    \E p \in WizardProviders :
      /\ verificationStates[p] = "failed"
      /\ verifications[p].captured = "failed"
      /\ resp.op = "generate-config"
      /\ resp.code # 200
      /\ \E i \in 1 .. Len(verificationSessions) :
           /\ verificationSessions[i].provider = p
           /\ verificationSessions[i].status = "verified"

(***************************************************************************)
(* Claims about the registry's bookkeeping (specification SpecAdmin; the   *)
(* same formulas hold under Spec, whose recipients re-enter the mint).     *)
(***************************************************************************)

\* hasMinted[a] holds exactly when holderTokens[a] is not empty, and every
\* id listed for a is a minted token whose record names a as holder.
C38_State ==
    \A a \in Addresses :
      /\ hasMinted[a] <=> holderTokens[a] # <<>>
      /\ \A i \in 1 .. Len(holderTokens[a]) :
           LET t == holderTokens[a][i]
           IN /\ t \in 0 .. (tokenIdCounter - 1)
              /\ Exists(Storage, t)
              /\ socialProofs[t].verified
              /\ socialProofs[t].holder = a

\* The holder field of a minted token's record does not change.
C38_Step ==
    \A t \in TokenIds :
      Exists(Storage, t) => socialProofs'[t].holder = socialProofs[t].holder

\* C38: the registry's bookkeeping is consistent: hasMinted[a] is true
\* exactly when holderTokens[a] is non-empty, every id in holderTokens[a]
\* is a minted token whose SocialProof.holder is a, and the holder field
\* never changes after the mint.
C38_BookkeepingConsistent == []C38_State /\ [][C38_Step]_vars

\* A token was minted to Alice, who transferred it to Mallory: the record
\* and the list still name Alice.
C38_Witness ==
    /\ last.op = "transferFrom"
    /\ last.err = ""
    /\ \E t \in TokenIds :
         /\ owners[t] = Mallory
         /\ socialProofs[t].holder = Alice
         /\ holderTokens[Alice] = << t >>
         /\ hasMinted[Alice]
         /\ Len(socialProofs[t].verifiedProviders) = 2

(***************************************************************************)
(* Claims about token ids (specification Spec).                            *)
(***************************************************************************)
MintOps == {"mintSocialProofPass", "mintWithProofVerification"}

\* How often id t is listed in holderTokens.
TimesListed(t) ==
    Cardinality({ << a, i >> \in Addresses \X (1 .. MaxTokens + 1) :
                    i <= Len(holderTokens[a]) /\ holderTokens[a][i] = t })

\* The minted tokens are the ids below the counter, and each is recorded
\* once.
C33_State ==
    /\ { t \in TokenIds : owners[t] # ZeroAddress }
         = 0 .. (tokenIdCounter - 1)
    /\ \A t \in TokenIds :
         TimesListed(t) = IF t < tokenIdCounter THEN 1 ELSE 0
    /\ \A t \in TokenIds :
         socialProofs[t].verified <=> t < tokenIdCounter

\* A transaction mints exactly the ids from the counter on, the mint it
\* called receives the first of them, and a failed mint leaves the counter
\* and the tokens alone.
C33_Step ==
    /\ { t \in TokenIds : owners[t] = ZeroAddress /\ owners'[t] # ZeroAddress }
         = tokenIdCounter .. (tokenIdCounter' - 1)
    /\ tokenIdCounter' >= tokenIdCounter
    /\ tokenIdCounter' > tokenIdCounter
         => /\ last'.op \in MintOps
            /\ last'.err = ""
            /\ last'.ret = tokenIdCounter
    /\ (last' # last /\ last'.op \in MintOps)
         => IF last'.err = ""
            THEN tokenIdCounter' > tokenIdCounter
            ELSE /\ tokenIdCounter' = tokenIdCounter
                 /\ owners' = owners
                 /\ last'.ret = NoToken

\* The ProofVerifiedOnChain events of a successful mintWithProofVerification
\* carry the id of the token their mint creates: those of the called mint
\* the id of its SocialProofPassMinted event (the last log), those of a
\* re-entered mint the id of that mint's SocialProofPassMinted event (the
\* last but one).
C33_Events ==
    \A sender \in {Alice, Mallory}, proofs \in ProofLists,
       providers \in MintLists \ {LongList}, hook \in Hooks :
      LET r == MintWithProofVerification(Storage, sender, proofs, providers,
                                         hook, blockTime)
          logs == ProofMintLogs(Storage, r, providers, hook)
          n == Len(logs)
      IN r.ok =>
           /\ logs[n].name = "SocialProofPassMinted"
           /\ logs[n].tokenId = r.ret
           /\ \A i \in 1 .. n :
                logs[i].name = "ProofVerifiedOnChain" =>
                  IF i <= Len(providers)
                  THEN logs[i].tokenId = logs[n].tokenId
                  ELSE /\ logs[n - 1].name = "SocialProofPassMinted"
                       /\ logs[i].tokenId = logs[n - 1].tokenId
                       /\ logs[i].tokenId # logs[n].tokenId

\* C33: token ids are sequential and unique: the k-th successful mint,
\* through either entry point and counting from 0, receives id k; a failed
\* mint consumes no id; no two tokens share an id; and every
\* ProofVerifiedOnChain event emitted during a mint carries the id of the
\* token that mint creates.
C33_IdsSequential == [](C33_State /\ C33_Events) /\ [][C33_Step]_vars

\* Two mints succeeded in one transaction: the sender's hook re-entered
\* mintWithProofVerification, the called mint has id 0 and the re-entered
\* one id 1.
C33_Witness ==
    /\ last.op = "mintWithProofVerification"
    /\ last.err = ""
    /\ last.ret = 0
    /\ tokenIdCounter = 2
    /\ holderTokens[last.to] = << 1, 0 >>

(***************************************************************************)
(* Claims about who may use an oracle proof (specification Spec).          *)
(***************************************************************************)

\* C36: an oracle proof authorises one holder only: a mint or an append
\* succeeds only with proofs issued to the caller, and a proof accepted in a
\* successful mintWithProofVerification by one address is not accepted
\* again from a different address.
C36_ProofAuthorisesOneHolder ==
    /\ \A sender \in {Alice, Mallory}, proofs \in ProofLists,
          providers \in MintLists \ {LongList}, hook \in Hooks :
         MintWithProofVerification(Storage, sender, proofs, providers, hook,
                                   blockTime).ok
           => \A i \in 1 .. Len(proofs) : proofs[i].owner = sender
    /\ \A sender \in {Alice, Mallory}, tokenId \in 0 .. MaxTokens,
          newProofs \in ProofLists, newProviders \in AppendLists :
         AddProvidersWithVerification(Storage, sender, tokenId, newProofs,
                                      newProviders, blockTime).ok
           => \A i \in 1 .. Len(newProofs) : newProofs[i].owner = sender
    /\ \A first \in {Alice, Mallory}, second \in {Alice, Mallory},
          proofs \in ProofLists, providers \in MintLists \ {LongList} :
         LET r == MintWithProofVerification(Storage, first, proofs,
                                            providers, HookAccept, blockTime)
         IN (first # second /\ r.ok)
              => ~MintWithProofVerification(r.st, second, proofs, providers,
                                            HookAccept, blockTime).ok

(***************************************************************************)
(* Claims about concurrent callbacks (specification SpecCallbacks).        *)
(***************************************************************************)

\* Indices of the sessions of `provider` that are verified.
VerifiedOf(sessions, provider) ==
    { i \in 1 .. Len(sessions) :
        sessions[i].provider = provider /\ sessions[i].status = "verified" }

\* The orders in which n suspended callbacks may resume.
Orders(n) ==
    { o \in [1 .. n -> 1 .. n] : \A i, j \in 1 .. n : o[i] = o[j] => i = j }

\* The session map after the suspended callbacks cbs resumed in the order o,
\* from position i on.
RECURSIVE ResumeAll(_, _, _, _)
ResumeAll(store, cbs, o, i) ==
    IF i > Len(cbs) THEN store.sessions
    ELSE ResumeAll(ReceiveProofs(store, cbs[o[i]].provider, cbs[o[i]].body,
                                 clock).store,
                   cbs, o, i + 1)

\* Whatever the order in which the callbacks now suspended resume: when the
\* k of them that the oracle accepts for a provider find at least k pending
\* sessions of that provider, exactly k sessions are promoted, all of them
\* pending before, and every session verified before is left as it is.
C34_State ==
    \A o \in Orders(Len(callbacks)) : \A p \in CallbackProviders :
      LET k == Cardinality({ i \in 1 .. Len(callbacks) :
                               /\ callbacks[i].provider = p
                               /\ callbacks[i].body.valid })
          after == ResumeAll(Store, callbacks, o, 1)
      IN Cardinality(PendingOf(verificationSessions, p)) >= k
           => /\ Len(after) = Len(verificationSessions)
              /\ VerifiedOf(after, p) \ VerifiedOf(verificationSessions, p)
                   \subseteq PendingOf(verificationSessions, p)
              /\ Cardinality(VerifiedOf(after, p))
                   = Cardinality(VerifiedOf(verificationSessions, p)) + k
              /\ \A i \in VerifiedOf(verificationSessions, p) :
                   after[i] = verificationSessions[i]

\* A callback that resumes and is answered 200 promotes one session that is
\* pending at that moment, when there is one, and changes no other.
C34_Step ==
    (Len(callbacks') < Len(callbacks) /\ resp'.code = 200)
      => LET pending == PendingOf(verificationSessions, resp'.provider)
             changed == Changed(verificationSessions, verificationSessions')
         IN /\ Len(verificationSessions') = Len(verificationSessions)
            /\ IF pending = {} THEN changed = {}
               ELSE /\ Cardinality(changed) = 1
                    /\ changed \subseteq pending
                    /\ \A i \in changed :
                         verificationSessions'[i].status = "verified"

\* C34: concurrent callbacks lose no promotion: for any interleaving of k
\* successful callbacks for one provider with at least k pending sessions,
\* exactly k distinct sessions end up verified and none is promoted twice.
C34_NoPromotionLost == []C34_State /\ [][C34_Step]_vars

\* A callback resumed and promoted one of two sessions of the provider
\* while another callback for the same provider is still suspended at the
\* oracle and the second session is still pending.
C34_Witness ==
    /\ resp.op = "receive-proofs"
    /\ resp.code = 200
    /\ Len(callbacks) = 1
    /\ callbacks[1].provider = resp.provider
    /\ callbacks[1].body.valid
    /\ Cardinality(VerifiedOf(verificationSessions, resp.provider)) = 1
    /\ Cardinality(PendingOf(verificationSessions, resp.provider)) = 1

(***************************************************************************)
(* Claims about mintNFT (specification SpecPage).                          *)
(***************************************************************************)

\* The step sent a mint request to the backend or a transaction to the
\* registry.
C31_Sent ==
    \/ resp' # resp /\ resp'.op \in {"mint-social-proof-nft",
                                     "prepare-onchain-mint"}
    \/ last' # last

\* The provider list that the request of the step carries.
C31_ListSent ==
    IF resp'.op = "mint-social-proof-nft" THEN resp'.providers
    ELSE resp'.request.verifiedProviders.val

C31_Step ==
    /\ C31_Sent
         => /\ pageWallet # NoWallet
            /\ VerifiedKeys(verificationStates) # {}
            /\ minting'.request # "none"
            /\ C31_ListSent = minting'.verifiedProviders
            /\ Len(C31_ListSent)
                 = Cardinality(VerifiedKeys(verificationStates))
            /\ { C31_ListSent[i] : i \in 1 .. Len(C31_ListSent) }
                 = VerifiedKeys(verificationStates)
            /\ minting'.called
                 => /\ last'.op = "mintWithProofVerification"
                    /\ last'.to = pageWallet
    /\ (minting' # minting
          /\ (pageWallet = NoWallet \/ VerifiedKeys(verificationStates) = {}))
         => /\ minting'.request = "none"
            /\ minting'.error # ""
            /\ ~minting'.called
            /\ ~minting'.nftMinted
            /\ resp' = resp
            /\ UNCHANGED registryVars

\* C31: the wizard triggers a mint only when a wallet is connected and at
\* least one provider is 'verified'; otherwise mintNFT sends no request and
\* no transaction; and the provider list it sends is exactly the set of
\* providers whose state is 'verified'.
C31_MintGuarded == [][C31_Step]_vars

\* mintNFT minted a pass for the one verified provider while the other
\* card was still loading.
C31_Witness ==
    /\ minting.request = "mint-social-proof-nft"
    /\ minting.nftMinted
    /\ minting.verifiedProviders = << "github" >>
    /\ verificationStates["github"] = "verified"
    /\ verificationStates["gmail"] = "loading"
    /\ hasMinted[pageWallet]
    /\ socialProofs[0].verifiedProviders = << "github" >>

\* C32: in on-chain mode with n >= 1 verified providers the proof array
\* submitted to mintWithProofVerification has exactly n entries: the oracle
\* proof of each verified provider was stored in reclaimProofs when its
\* status turned verified, so the contract's non-empty and equal-length
\* checks pass.
C32_OneProofPerProvider ==
    /\ \A p \in PageProviders :
         verificationStates[p] = "verified"
           => pageReclaimProofs[p] # JsUndefined
    /\ (minting.request = "prepare-onchain-mint" /\ minting.called)
         => /\ Len(minting.verifiedProviders) >= 1
            /\ Len(minting.transformedProofs)
                 = Len(minting.verifiedProviders)
            /\ last.err \notin {"At least one proof required",
                                "Proofs and providers length mismatch"}

(***************************************************************************)
(* Claims about two users of one backend (specification SpecShared).       *)
(***************************************************************************)

\* Indices of the sessions of `provider` created with `address`.
SessionsOf(sessions, provider, address) ==
    { i \in 1 .. Len(sessions) :
        sessions[i].provider = provider /\ sessions[i].address = address }

\* A card of a connected wizard that has a session of its own turns
\* verified only when a session created with the wizard's wallet is
\* verified, and the proof it records was not produced through a session
\* created with another wallet.
C35_Step ==
    \A p \in WizardProviders :
      LET own == SessionsOf(verificationSessions, p, pageWallet)
      IN (/\ verificationStates'[p] = "verified"
          /\ verificationStates[p] # "verified"
          /\ pageWallet # NoWallet
          /\ own # {})
           => /\ \E i \in own : verificationSessions[i].status = "verified"
              /\ \A i \in 1 .. Len(verificationSessions) :
                   pageProofs'[p].origin = verificationSessions[i].id
                     => verificationSessions[i].address = pageWallet

\* C35: sessions do not leak between wallets: with two wizards that verify
\* the same provider for different wallets, a wizard becomes 'verified' and
\* records a proof only if a session created with its own wallet address was
\* verified; one user's completed verification never marks the other user's
\* wizard verified or hands it the other user's proof.
C35_NoLeakBetweenWallets == [][C35_Step]_vars

====
